---- MODULE Spec2Model ----
(***************************************************************************)
(* Model of the export pipeline of zotero-agent-bridge:                    *)
(*   src/export/naming.ts    naming engine                                 *)
(*   src/export/exporter.ts  export orchestrator (exportItems)             *)
(*   src/zotero/queries.ts   aggregate loader (getItemExportData)          *)
(*   src/export/markdown.ts  document renderer (buildMarkdown)             *)
(*                                                                         *)
(* A string is a sequence of one-character strings; a path below the       *)
(* output root is a sequence of segments, the output root being << >>.     *)
(***************************************************************************)
EXTENDS Integers, Sequences, FiniteSets, TLC

(***************************************************************************)
(* State.                                                                  *)
(***************************************************************************)
VARIABLES
  fs,             \* the destination tree
  pc,             \* where exportItems is: idle, mkdirRoot, loop, resolveConflict,
                  \* removeExistingTarget, mkdirItem, selectPdfAttachments, copyLoop,
                  \* makeUniqueFilePath, uniqueLoop, copyFile, write, done, thrown
  layoutMode,     \* options.layoutMode
  batchLen,       \* itemSummaries.length
  idx,            \* position of the for loop in itemSummaries, from 1
  item,           \* the aggregate of the item in flight, undefined when none is
  outputPaths,    \* outputPaths of the item in flight
  pdfAttachments, \* pdfAttachments of the item in flight
  result,         \* the ExportResult, undefined before it is created
  selectedPdfs,   \* item ids of the attachments in selectedPdfs, in order
  attIdx,         \* position of the inner for loop in selectedPdfs, from 1
  copiedPdfNames, \* copiedPdfNames
  desiredTargetPath, \* desiredTargetPath, the argument of makeUniqueFilePath
  targetPath,     \* targetPath, the path makeUniqueFilePath returned
  suffix,         \* makeUniqueFilePath: suffix, 0 before the loop
  faults,         \* failures of collaborators and file operations so far
  obs,            \* what the collaborators of the current call have observed
  call,           \* a call of a function on its own: its name and arguments
  returned,       \* what that call returned, undefined before it returns
  files,          \* the files of the Zotero data directory and of os.tmpdir()
  opened,         \* the OpenedZoteroDatabase of the command, undefined when none
  opens,          \* the calls of openZoteroDatabase so far
  mirror,         \* exportCollectionCommand in mirror-subcollections mode: its
                  \* locals, the folders that exist and the calls of runExport
  picker          \* pickItemsWithThreeLineView: the panel, the listeners, done
                  \* and the values its promise was resolved with

vars == <<fs, pc, layoutMode, batchLen, idx, item, outputPaths, pdfAttachments, result,
          selectedPdfs, attIdx, copiedPdfNames, desiredTargetPath, targetPath, suffix,
          faults, obs, call, returned, files, opened, opens, mirror, picker>>

\* the variables of a function called on its own and of the database
aside == <<call, returned, files, opened, opens, mirror, picker>>

\* the variables of exportItems
exporting == <<fs, pc, layoutMode, batchLen, idx, item, outputPaths, pdfAttachments, result,
               selectedPdfs, attIdx, copiedPdfNames, desiredTargetPath, targetPath, suffix,
               faults, obs>>

\* the variables of the loop body
body == <<item, outputPaths, pdfAttachments, selectedPdfs, attIdx, copiedPdfNames,
          desiredTargetPath, targetPath, suffix>>

(***************************************************************************)
(* Bounds of the model.                                                    *)
(***************************************************************************)
MaxBatch == 3
MaxFaults == 1
MaxProbeFiles == 4
MaxInputLen == 3
MaxOpens == 1
MaxNotes == 2
MaxCollections == 3
MaxLimit == 2

\* the longest list of highlights, and of notes, buildMarkdown is given
MaxBlocks == 2

(***************************************************************************)
(* Strings.                                                                *)
(***************************************************************************)
\* the value of an absent string: a sequence that is no string
NULL == <<"null">>

\* the path held when there is none
noPath == <<NULL>>

\* the value of a variable that holds no object
undefined == [undefined |-> TRUE]

LowerChars == {"a","b","c","d","e","f","g","h","i","j","k","l","m",
               "n","o","p","q","r","s","t","u","v","w","x","y","z"}

UpperChars == {"A","B","C","D","E","F","G","H","I","J","K","L","M",
               "N","O","P","Q","R","S","T","U","V","W","X","Y","Z"}

DigitChars == {"0","1","2","3","4","5","6","7","8","9"}

WhitespaceChars == {" ", "\n"}

\* U+0301 COMBINING ACUTE ACCENT, the second code unit of NFKD("é")
CombiningAcute == "U+0301"

toLowerCaseChar(c) ==
  CASE c = "A" -> "a" [] c = "B" -> "b" [] c = "C" -> "c" [] c = "D" -> "d"
    [] c = "E" -> "e" [] c = "F" -> "f" [] c = "G" -> "g" [] c = "H" -> "h"
    [] c = "I" -> "i" [] c = "J" -> "j" [] c = "K" -> "k" [] c = "L" -> "l"
    [] c = "M" -> "m" [] c = "N" -> "n" [] c = "O" -> "o" [] c = "P" -> "p"
    [] c = "Q" -> "q" [] c = "R" -> "r" [] c = "S" -> "s" [] c = "T" -> "t"
    [] c = "U" -> "u" [] c = "V" -> "v" [] c = "W" -> "w" [] c = "X" -> "x"
    [] c = "Y" -> "y" [] c = "Z" -> "z" [] c = "É" -> "é" [] OTHER -> c

toLowerCase(s) == [i \in 1..Len(s) |-> toLowerCaseChar(s[i])]

Min(a, b) == IF a < b THEN a ELSE b

slice(s, from, to) == SubSeq(s, from + 1, Min(to, Len(s)))

sliceFrom(s, from) == SubSeq(s, from + 1, Len(s))

startsWith(s, prefix) ==
  /\ Len(prefix) <= Len(s)
  /\ SubSeq(s, 1, Len(prefix)) = prefix

endsWith(s, searchString) ==
  /\ Len(searchString) <= Len(s)
  /\ SubSeq(s, Len(s) - Len(searchString) + 1, Len(s)) = searchString

includes(s, part) ==
  \E i \in 0..(Len(s) - Len(part)) : SubSeq(s, i + 1, i + Len(part)) = part

\* the strings of ss one after the other
RECURSIVE flatten(_)
flatten(ss) ==
  IF Len(ss) = 0 THEN << >>
  ELSE IF Len(ss) = 1 THEN ss[1]
  ELSE LET half == Len(ss) \div 2
       IN flatten(SubSeq(ss, 1, half)) \o flatten(SubSeq(ss, half + 1, Len(ss)))

\* String.prototype.normalize('NFKD'): an "é" becomes "e" and the combining
\* accent, every other character of the model is its own normal form
normalizeNFKD(s) ==
  flatten([i \in 1..Len(s) |-> IF s[i] = "é" THEN <<"e", CombiningAcute>> ELSE <<s[i]>>])

\* s.replace(/^C+/, '')
stripLeading(s, class) ==
  IF \A k \in 1..Len(s) : s[k] \in class THEN << >>
  ELSE SubSeq(s, CHOOSE k \in 1..Len(s) :
                   s[k] \notin class /\ \A j \in 1..(k - 1) : s[j] \in class,
              Len(s))

\* s.replace(/C+$/, '')
stripTrailing(s, class) ==
  IF \A k \in 1..Len(s) : s[k] \in class THEN << >>
  ELSE SubSeq(s, 1, CHOOSE k \in 1..Len(s) :
                      s[k] \notin class /\ \A j \in (k + 1)..Len(s) : s[j] \in class)

\* String.prototype.trim
trimStart(s) == stripLeading(s, WhitespaceChars)

trimEnd(s) == stripTrailing(s, WhitespaceChars)

trim(s) == trimEnd(trimStart(s))

\* s.replace(/C+/g, r) for a character class C and a one-character r: one r
\* for each run of characters of C
replaceRuns(s, class, r) ==
  LET ends == SelectSeq([i \in 1..Len(s) |-> i],
                        LAMBDA i : s[i] \notin class \/ i = Len(s) \/ s[i + 1] \notin class)
  IN [k \in 1..Len(ends) |-> IF s[ends[k]] \in class THEN r ELSE s[ends[k]]]

RECURSIVE decimal(_)
decimal(n) ==
  LET d == <<"0","1","2","3","4","5","6","7","8","9">>
  IN IF n < 10 THEN <<d[n + 1]>> ELSE decimal(n \div 10) \o <<d[(n % 10) + 1]>>

(***************************************************************************)
(* Naming engine (src/export/naming.ts).                                   *)
(***************************************************************************)
MAX_SLUG_LENGTH == 80

SegmentChars == LowerChars \cup UpperChars \cup DigitChars \cup {".", "_", "-"}

sanitizeSegment(input) ==
  LET normalized == normalizeNFKD(input)
      kept       == SelectSeq(normalized, LAMBDA c : c \in SegmentChars \cup WhitespaceChars)
      trimmed    == trim(kept)
      dashed     == replaceRuns(trimmed, WhitespaceChars, "-")
      collapsed  == replaceRuns(dashed, {"-"}, "-")
      stripped   == stripTrailing(stripLeading(collapsed, {"-", "."}), {"-", "."})
  IN slice(stripped, 0, MAX_SLUG_LENGTH)

orElse(s, fallback) == IF s = << >> THEN fallback ELSE s

\* the slug cut at the cap, the length of the key forgotten
buildItemSlugCapped(exportData) ==
  LET titlePart == orElse(sanitizeSegment(exportData.title), <<"u","n","t","i","t","l","e","d">>)
  IN slice(exportData.key \o <<"-">> \o titlePart, 0, MAX_SLUG_LENGTH)

buildItemSlug(exportData) ==
  LET titlePart == orElse(sanitizeSegment(exportData.title), <<"u","n","t","i","t","l","e","d">>)
  IN slice(exportData.key \o <<"-">> \o titlePart, 0, MAX_SLUG_LENGTH + Len(exportData.key) + 1)

\* path.parse(base) for a base that contains no separator: name and ext
lastDot(s) ==
  IF \E i \in 1..Len(s) : s[i] = "."
  THEN CHOOSE i \in 1..Len(s) : s[i] = "." /\ \A j \in (i + 1)..Len(s) : s[j] # "."
  ELSE 0

pathParse(base) ==
  LET dot == lastDot(base)
  IN IF dot <= 1 \/ base = <<".", ".">>
     THEN [name |-> base, ext |-> << >>]
     ELSE [name |-> SubSeq(base, 1, dot - 1), ext |-> SubSeq(base, dot, Len(base))]

sanitizeFilename(filename) ==
  LET parsed == pathParse(filename)
      name   == orElse(sanitizeSegment(parsed.name), <<"a","t","t","a","c","h","m","e","n","t">>)
      ext    == SelectSeq(parsed.ext,
                          LAMBDA c : c \in LowerChars \cup UpperChars \cup DigitChars \cup {"."})
  IN name \o ext

\* path.dirname / path.basename of a path below the output root
dirname(p) == SubSeq(p, 1, Len(p) - 1)

basename(p) == p[Len(p)]

outputRoot == << >>

resolveItemOutputPaths(mode, slug, year) ==
  IF mode = "flat"
  THEN [markdownPath |-> outputRoot \o <<slug \o <<".","m","d">>>>,
        flatPrefix   |-> slug \o <<"_","_">>]
  ELSE IF mode = "year-item"
  THEN LET unknown    == <<"u","n","k","n","o","w","n","-","y","e","a","r">>
           yearFolder == orElse(sanitizeSegment(IF year = NULL \/ year = << >> THEN unknown ELSE year),
                                unknown)
           itemFolder == outputRoot \o <<yearFolder, slug>>
       IN [itemFolder   |-> itemFolder,
           markdownPath |-> itemFolder \o <<<<"i","t","e","m",".","m","d">>>>]
  ELSE LET itemFolder == outputRoot \o <<slug>>
       IN [itemFolder   |-> itemFolder,
           markdownPath |-> itemFolder \o <<<<"i","t","e","m",".","m","d">>>>]

\* outputPaths.itemFolder and outputPaths.flatPrefix are optional
hasItemFolder(paths) == "itemFolder" \in DOMAIN paths

hasFlatPrefix(paths) == "flatPrefix" \in DOMAIN paths

(***************************************************************************)
(* The Zotero store: the rows of the tables the aggregate loader reads.    *)
(* Item 1 has three PDF attachments (two whose names sanitize to the same  *)
(* file name, one without a path) and one attachment that is not a PDF;    *)
(* item 2 has a single PDF; item 3 has a single PDF whose file is missing; *)
(* item 4 has no attachment and no title; item 9 is not in the store.      *)
(***************************************************************************)
str_storage == <<"s","t","o","r","a","g","e",":">>

str_pdfType == <<"a","p","p","l","i","c","a","t","i","o","n","/","p","d","f">>

str_htmlType == <<"t","e","x","t","/","h","t","m","l">>

itemsTable ==
  { [itemID |-> 1,  key |-> <<"K","1">>],
    [itemID |-> 2,  key |-> <<"K","2">>],
    [itemID |-> 3,  key |-> <<"K","3">>],
    [itemID |-> 4,  key |-> <<"K","4">>],
    [itemID |-> 11, key |-> <<"A","1">>],
    [itemID |-> 12, key |-> <<"A","2">>],
    [itemID |-> 14, key |-> <<"A","4">>],
    [itemID |-> 15, key |-> <<"A","5">>],
    [itemID |-> 21, key |-> <<"B","1">>],
    [itemID |-> 31, key |-> <<"C","1">>] }

itemDataTable ==
  { [itemID |-> 1, fieldName |-> "title", value |-> <<"A"," ","b">>],
    [itemID |-> 1, fieldName |-> "date",  value |-> <<"2","0","2","0","-","0","5">>],
    [itemID |-> 2, fieldName |-> "title", value |-> <<"C",":">>],
    [itemID |-> 2, fieldName |-> "date",  value |-> <<"n",".","d",".">>],
    [itemID |-> 3, fieldName |-> "title", value |-> <<"é">>] }

itemAttachmentsTable ==
  { [itemID |-> 11, parentItemID |-> 1, contentType |-> str_pdfType,
     path |-> str_storage \o <<"d",".","p","d","f">>],
    [itemID |-> 12, parentItemID |-> 1, contentType |-> NULL,
     path |-> str_storage \o <<"(","d",")",".","P","D","F">>],
    [itemID |-> 14, parentItemID |-> 1, contentType |-> str_htmlType,
     path |-> str_storage \o <<"s",".","h","t","m","l">>],
    [itemID |-> 15, parentItemID |-> 1, contentType |-> str_pdfType,
     path |-> NULL],
    [itemID |-> 21, parentItemID |-> 2, contentType |-> str_pdfType,
     path |-> str_storage \o <<"i","t","e","m",".","m","d">>],
    [itemID |-> 31, parentItemID |-> 3, contentType |-> NULL,
     path |-> <<"/","m",".","p","d","f">>] }

itemNotesTable ==
  { [itemID |-> 105, parentItemID |-> 1,  note |-> <<"n">>],
    [itemID |-> 101, parentItemID |-> 11, note |-> <<"n">>],
    [itemID |-> 102, parentItemID |-> 12, note |-> <<" ">>],
    [itemID |-> 104, parentItemID |-> 14, note |-> <<"n">>],
    [itemID |-> 201, parentItemID |-> 21, note |-> <<"n">>],
    [itemID |-> 401, parentItemID |-> 4,  note |-> << >>] }

itemAnnotationsTable ==
  { [itemID |-> 111, parentItemID |-> 11, sortIndex |-> <<"1","0">>],
    [itemID |-> 112, parentItemID |-> 11, sortIndex |-> <<"9">>],
    [itemID |-> 121, parentItemID |-> 12, sortIndex |-> <<"1">>],
    [itemID |-> 151, parentItemID |-> 15, sortIndex |-> <<"1">>],
    [itemID |-> 211, parentItemID |-> 21, sortIndex |-> <<"1">>] }

\* the database exportItems reads
zoteroDb ==
  [items           |-> itemsTable,
   itemData        |-> itemDataTable,
   itemAttachments |-> itemAttachmentsTable,
   itemNotes       |-> itemNotesTable,
   itemAnnotations |-> itemAnnotationsTable]

\* the Zotero storage directory and the files that exist below it
storagePath == <<"/","z">>

sourceFiles ==
  { storagePath \o <<"/","A","1","/","d",".","p","d","f">>,
    storagePath \o <<"/","A","2","/","(","d",")",".","P","D","F">>,
    storagePath \o <<"/","A","4","/","s",".","h","t","m","l">>,
    storagePath \o <<"/","B","1","/","i","t","e","m",".","m","d">> }

(***************************************************************************)
(* Aggregate loader (src/zotero/queries.ts).                               *)
(***************************************************************************)
\* the rows of a result set in ORDER BY order
orderBy(rows, before) ==
  [i \in 1..Cardinality(rows) |->
     CHOOSE r \in rows : Cardinality({o \in rows : <<o, r>> \in before}) = i - 1]

\* ORDER BY itemID
byItemID(rows) == {pair \in rows \X rows : pair[1].itemID < pair[2].itemID}

\* SQLite's default (binary) collation of two strings of digits
RECURSIVE stringLess(_, _)
stringLess(a, b) ==
  IF b = << >> THEN FALSE
  ELSE IF a = << >> THEN TRUE
  ELSE LET na == CHOOSE n \in 0..9 : decimal(n) = <<Head(a)>>
           nb == CHOOSE n \in 0..9 : decimal(n) = <<Head(b)>>
       IN IF na # nb THEN na < nb ELSE stringLess(Tail(a), Tail(b))

extractYear(dateValue) ==
  IF dateValue = NULL \/ dateValue = << >> THEN NULL
  ELSE LET starts == {i \in 1..(Len(dateValue) - 3) :
                        \A j \in i..(i + 3) : dateValue[j] \in DigitChars}
       IN IF starts = {} THEN NULL
          ELSE LET i == CHOOSE s \in starts : \A t \in starts : s <= t
               IN SubSeq(dateValue, i, i + 3)

getFieldMap(db, itemId) ==
  [name \in {r.fieldName : r \in {d \in db.itemData : d.itemID = itemId}} |->
     (CHOOSE r \in db.itemData : r.itemID = itemId /\ r.fieldName = name).value]

field(fields, name) == IF name \in DOMAIN fields THEN fields[name] ELSE NULL

deriveAttachmentFilename(attachmentPath, key) ==
  IF attachmentPath = NULL \/ attachmentPath = << >>
  THEN key \o <<".","p","d","f">>
  ELSE LET withoutPrefix == IF startsWith(attachmentPath, str_storage)
                            THEN sliceFrom(attachmentPath, Len(str_storage))
                            ELSE attachmentPath
           trimmed == stripLeading(withoutPrefix, {"/", "\\"})
           seps    == {i \in 1..Len(trimmed) : trimmed[i] \in {"/", "\\"}}
           base    == IF seps = {} THEN trimmed
                      ELSE sliceFrom(trimmed, CHOOSE i \in seps : \A j \in seps : j <= i)
       IN orElse(base, key \o <<".","p","d","f">>)

getAttachmentsForItem(db, itemId) ==
  LET found == {ia \in db.itemAttachments :
                  /\ ia.parentItemID = itemId
                  /\ \E ai \in db.items : ai.itemID = ia.itemID}
      rows  == orderBy(found, byItemID(found))
      map(row) ==
        LET key      == (CHOOSE ai \in db.items : ai.itemID = row.itemID).key
            filename == deriveAttachmentFilename(row.path, key)
            isPdf    == \/ (row.contentType # NULL
                             /\ includes(toLowerCase(row.contentType), <<"p","d","f">>))
                        \/ endsWith(toLowerCase(filename), <<".","p","d","f">>)
        IN [itemId      |-> row.itemID,
            key         |-> key,
            contentType |-> row.contentType,
            path        |-> row.path,
            filename    |-> filename,
            isPdf       |-> isPdf]
  IN [i \in 1..Len(rows) |-> map(rows[i])]

noteOfRow(row) ==
  [itemId |-> row.itemID, parentItemId |-> row.parentItemID, noteHtml |-> row.note]

\* the notes of both origins in one query, ORDER BY itemID
getNotesMergedById(db, itemId, attachmentIds) ==
  LET found == {n \in db.itemNotes :
                  \/ n.parentItemID = itemId
                  \/ \E k \in 1..Len(attachmentIds) : n.parentItemID = attachmentIds[k]}
      rows  == orderBy(found, byItemID(found))
  IN [i \in 1..Len(rows) |-> noteOfRow(rows[i])]

getNotesForItemAndAttachments(db, itemId, attachmentIds) ==
  LET ofItem        == {n \in db.itemNotes : n.parentItemID = itemId}
      ofAttachments == {n \in db.itemNotes :
                          \E k \in 1..Len(attachmentIds) : n.parentItemID = attachmentIds[k]}
      parentRows    == orderBy(ofItem, byItemID(ofItem))
      attachmentRows ==
        IF Len(attachmentIds) > 0
        THEN orderBy(ofAttachments, byItemID(ofAttachments))
        ELSE << >>
  IN [i \in 1..Len(parentRows) |-> noteOfRow(parentRows[i])]
       \o [i \in 1..Len(attachmentRows) |-> noteOfRow(attachmentRows[i])]

\* ORDER BY parentItemID ASC, sortIndex ASC, itemID ASC
byParentSortIndexItemID(rows) ==
  {pair \in rows \X rows :
     LET a == pair[1]
         b == pair[2]
     IN \/ a.parentItemID < b.parentItemID
        \/ /\ a.parentItemID = b.parentItemID
           /\ \/ stringLess(a.sortIndex, b.sortIndex)
              \/ /\ a.sortIndex = b.sortIndex
                 /\ a.itemID < b.itemID}

getAnnotationsForAttachments(db, attachmentIds) ==
  IF Len(attachmentIds) = 0 THEN << >>
  ELSE LET found == {a \in db.itemAnnotations :
                       \E k \in 1..Len(attachmentIds) : a.parentItemID = attachmentIds[k]}
           rows  == orderBy(found, byParentSortIndexItemID(found))
       IN [i \in 1..Len(rows) |->
             [itemId |-> rows[i].itemID, parentItemId |-> rows[i].parentItemID,
              sortIndex |-> rows[i].sortIndex]]

\* TRUE when the base item row exists; getItemExportData throws otherwise
itemExists(db, itemId) == \E i \in db.items : i.itemID = itemId

getItemExportData(db, itemId) ==
  LET base          == CHOOSE i \in db.items : i.itemID = itemId
      fields        == getFieldMap(db, itemId)
      attachments   == getAttachmentsForItem(db, itemId)
      attachmentIds == [i \in 1..Len(attachments) |-> attachments[i].itemId]
      date          == field(fields, "date")
  IN [itemId      |-> base.itemID,
      key         |-> base.key,
      title       |-> IF field(fields, "title") = NULL
                      THEN <<"U","n","t","i","t","l","e","d">>
                      ELSE fields["title"],
      year        |-> extractYear(date),
      date        |-> date,
      attachments |-> attachments,
      notes       |-> getNotesForItemAndAttachments(db, itemId, attachmentIds),
      annotations |-> getAnnotationsForAttachments(db, attachmentIds)]

storeItemIds == {1, 2, 3, 4}

\* an item id the store does not hold
missingItemId == 9

\* the aggregate of every item of the store, as getItemExportData returns it
aggregate == [id \in storeItemIds |-> getItemExportData(zoteroDb, id)]

(***************************************************************************)
(* Database access (src/zotero/db.ts): the files of the Zotero data        *)
(* directory and of the temporary directory, each with its content.        *)
(***************************************************************************)
sqlitePath == <<"zotero.sqlite">>

\* os.tmpdir()/vscodezotero-<time>-<random>.sqlite of the n-th call
tempPath(n) == <<"tmpdir", n>>

\* fs.copyFile(src, dest)
copyFile(tree, src, dest) == [p \in DOMAIN tree \cup {dest} |-> IF p = dest THEN tree[src] ELSE tree[p]]

\* fs.rm(p, { force: true })
rmForce(tree, p) == [q \in DOMAIN tree \ {p} |-> tree[q]]

copyDatabaseToTemp(tree, n) == copyFile(tree, sqlitePath, tempPath(n))

\* the file cleanup removes, were it the database itself
removedByCleanupOfSource(handle) == sqlitePath

\* the file cleanup removes
removedByCleanup(handle) == handle.tempDbPath

(***************************************************************************)
(* Summary queries (src/zotero/queries.ts).  A database is a record of its *)
(* tables, each a set of rows; the tables that only name things (fields,   *)
(* itemDataValues, itemTypes, creators, tags) are joined into the rows     *)
(* that refer to them.  An absent INTEGER is nullId, an absent TEXT NULL.  *)
(***************************************************************************)
nullId == 0

coalesce(value, fallback) == IF value = NULL THEN fallback ELSE value

\* SQLite's LOWER and the comparison of LIKE fold the case of ASCII letters only
sqlLowerChar(c) == IF c \in UpperChars THEN toLowerCaseChar(c) ELSE c

sqlLower(s) == [i \in 1..Len(s) |-> sqlLowerChar(s[i])]

\* subject LIKE pattern: % matches any run of characters, _ any one character
RECURSIVE sqlLike(_, _)
sqlLike(subject, pattern) ==
  IF pattern = << >> THEN subject = << >>
  ELSE IF Head(pattern) = "%"
  THEN \E k \in 0..Len(subject) : sqlLike(SubSeq(subject, k + 1, Len(subject)), Tail(pattern))
  ELSE /\ subject # << >>
       /\ Head(pattern) = "_" \/ sqlLowerChar(Head(pattern)) = sqlLowerChar(Head(subject))
       /\ sqlLike(Tail(subject), Tail(pattern))

\* GROUP_CONCAT(values, '; ') of the values in the order given, NULL of none
groupConcat(values) ==
  IF Len(values) = 0 THEN NULL
  ELSE flatten([i \in 1..(2 * Len(values) - 1) |->
                  IF i % 2 = 1 THEN values[(i + 1) \div 2] ELSE <<";", " ">>])

\* field_values: the value of a field of an item, NULL when it has none
fieldValue(db, itemId, fieldName) ==
  LET rows == {d \in db.itemData : d.itemID = itemId /\ d.fieldName = fieldName}
  IN IF rows = {} THEN NULL ELSE (CHOOSE d \in rows : TRUE).value

byOrderIndex(rows) == {pair \in rows \X rows : pair[1].orderIndex < pair[2].orderIndex}

\* creator_values: "last, first" of every creator of the item
creatorsTextOf(db, itemId) ==
  LET found == {c \in db.itemCreators : c.itemID = itemId}
      rows  == orderBy(found, byOrderIndex(found))
  IN groupConcat([i \in 1..Len(rows) |->
                    trim(coalesce(rows[i].lastName, << >>)
                           \o (IF rows[i].firstName # NULL /\ rows[i].firstName # << >>
                               THEN <<",", " ">> \o rows[i].firstName
                               ELSE << >>))])

byTagID(rows) == {pair \in rows \X rows : pair[1].tagID < pair[2].tagID}

\* tag_values
tagsTextOf(db, itemId) ==
  LET found == {t \in db.itemTags : t.itemID = itemId}
      rows  == orderBy(found, byTagID(found))
  IN groupConcat([i \in 1..Len(rows) |-> rows[i].name])

\* attachment_values
pdfCountOf(db, itemId) ==
  Cardinality({ia \in db.itemAttachments :
                 /\ ia.parentItemID # nullId
                 /\ ia.parentItemID = itemId
                 /\ \/ sqlLike(sqlLower(coalesce(ia.contentType, << >>)), <<"%","p","d","f","%">>)
                    \/ sqlLike(sqlLower(coalesce(ia.path, << >>)), <<"%",".","p","d","f">>)})

\* note_targets without the attachments of the items
noteTargetsOfItemsOnly(db) == {<<i.itemID, i.itemID>> : i \in db.items}

\* note_targets: <<rootItemID, targetItemID>>
noteTargets(db) ==
  {<<i.itemID, i.itemID>> : i \in db.items}
    \cup {<<ia.parentItemID, ia.itemID>> :
            ia \in {a \in db.itemAttachments : a.parentItemID # nullId}}

\* note_values: COUNT(DISTINCT n.itemID)
noteCountOf(db, itemId) ==
  Cardinality({n.itemID : n \in {m \in db.itemNotes :
                                   \E nt \in noteTargets(db) :
                                     nt[1] = itemId /\ m.parentItemID = nt[2]}})

ChildTypes == {"attachment", "note", "annotation"}

\* the rows baseItemSummariesSql selects for the item ids of idSource
baseItemSummaries(db, idSource) ==
  {[itemID       |-> b.itemID,
    key          |-> b.key,
    itemType     |-> b.typeName,
    title        |-> fieldValue(db, b.itemID, "title"),
    date         |-> fieldValue(db, b.itemID, "date"),
    dateModified |-> b.dateModified,
    doi          |-> fieldValue(db, b.itemID, "DOI"),
    creatorsText |-> creatorsTextOf(db, b.itemID),
    tagsText     |-> tagsTextOf(db, b.itemID),
    pdfCount     |-> pdfCountOf(db, b.itemID),
    noteCount    |-> noteCountOf(db, b.itemID)] :
     b \in {i \in db.items : i.itemID \in idSource /\ i.typeName \notin ChildTypes}}

mapSummary(row) ==
  [itemId       |-> row.itemID,
   key          |-> row.key,
   itemType     |-> row.itemType,
   title        |-> IF row.title = NULL THEN <<"U","n","t","i","t","l","e","d">>
                    ELSE orElse(trim(row.title), <<"U","n","t","i","t","l","e","d">>),
   creatorsText |-> IF row.creatorsText = NULL THEN << >> ELSE trim(row.creatorsText),
   date         |-> row.date,
   year         |-> extractYear(row.date),
   dateModified |-> row.dateModified,
   doi          |-> row.doi,
   tagsText     |-> row.tagsText,
   pdfCount     |-> row.pdfCount,
   hasPdf       |-> row.pdfCount > 0,
   noteCount    |-> row.noteCount]

\* ORDER BY b.dateModified DESC: a NULL comes last, rows of the same
\* timestamp come in any order
inDateModifiedOrder(rows) ==
  \A i, j \in 1..Len(rows) :
    i < j => \/ rows[j].dateModified = NULL
             \/ /\ rows[i].dateModified # NULL
                /\ ~stringLess(rows[i].dateModified, rows[j].dateModified)

\* the result sets of ORDER BY b.dateModified DESC LIMIT limit over rows
orderedAndLimited(rows, limit) ==
  LET n == IF limit < 0 THEN Cardinality(rows) ELSE Min(limit, Cardinality(rows))
  IN {[i \in 1..n |-> mapSummary(all[i])] :
        all \in {q \in [1..Cardinality(rows) -> rows] :
                   /\ \A i, j \in 1..Cardinality(rows) : i # j => q[i] # q[j]
                   /\ inDateModifiedOrder(q)}}

\* the results searchItems may return
searchItems(db, searchText, limit) ==
  LET normalized == trim(searchText)
      like       == <<"%">> \o toLowerCase(normalized) \o <<"%">>
      matching   ==
        {r \in baseItemSummaries(db, {i.itemID : i \in db.items}) :
           \/ normalized = << >>
           \/ sqlLike(sqlLower(coalesce(r.title, << >>)), like)
           \/ sqlLike(sqlLower(coalesce(r.creatorsText, << >>)), like)
           \/ sqlLike(sqlLower(coalesce(r.date, << >>)), like)
           \/ sqlLike(sqlLower(coalesce(r.doi, << >>)), like)
           \/ sqlLike(sqlLower(coalesce(r.tagsText, << >>)), like)}
  IN orderedAndLimited(matching, limit)

getItemSummariesByIds(db, itemIds, limit) ==
  IF itemIds = {} THEN {<< >>}
  ELSE orderedAndLimited(baseItemSummaries(db, itemIds), limit)

\* the collection alone, those below it forgotten
descendantsForgotten(db, collectionIds) == collectionIds

\* WITH RECURSIVE descendants: the collection and those below it
RECURSIVE descendants(_, _)
descendants(db, collectionIds) ==
  LET children == {c.collectionID : c \in {d \in db.collections :
                                              d.parentCollectionID \in collectionIds}}
  IN IF children \subseteq collectionIds THEN collectionIds
     ELSE descendants(db, collectionIds \cup children)

DEFAULT_LIMIT == 10000

getCollectionItemSummaries(db, collectionId, limit) ==
  LET itemIds == {ci.itemID : ci \in {m \in db.collectionItems :
                                         m.collectionID \in descendants(db, {collectionId})}}
  IN getItemSummariesByIds(db, itemIds, limit)

getDirectCollectionItemSummaries(db, collectionId, limit) ==
  LET itemIds == {ci.itemID : ci \in {m \in db.collectionItems : m.collectionID = collectionId}}
  IN getItemSummariesByIds(db, itemIds, limit)

(***************************************************************************)
(* The destination tree: a function from the paths that exist to what is   *)
(* there, a directory or a file with its content.                          *)
(***************************************************************************)
Dir == [kind |-> "dir"]

File(data) == [kind |-> "file", data |-> data]

pathExists(tree, p) == p \in DOMAIN tree

isPrefix(p, q) == Len(p) <= Len(q) /\ SubSeq(q, 1, Len(p)) = p

prefixes(p) == {SubSeq(p, 1, n) : n \in 0..Len(p)}

\* fs.mkdir(p, { recursive: true }) succeeds unless a component is a file
canMkdir(tree, p) == \A q \in prefixes(p) : q \in DOMAIN tree => tree[q] = Dir

mkdir(tree, p) ==
  [q \in DOMAIN tree \cup prefixes(p) |-> IF q \in DOMAIN tree THEN tree[q] ELSE Dir]

\* fs.rm(p, { recursive: true, force: true })
rmRecursive(tree, p) == [q \in {r \in DOMAIN tree : ~isPrefix(p, r)} |-> tree[q]]

\* fs.rm(p, { force: true }) succeeds unless p is a directory
canRm(tree, p) == p \in DOMAIN tree => tree[p] # Dir

rmAll(tree, ps) == [q \in DOMAIN tree \ ps |-> tree[q]]

\* fs.copyFile and fs.writeFile succeed unless the target is a directory or
\* its parent is not an existing directory
canWriteFile(tree, p) ==
  /\ p # << >>
  /\ dirname(p) \in DOMAIN tree
  /\ tree[dirname(p)] = Dir
  /\ (p \in DOMAIN tree => tree[p] # Dir)

writeFile(tree, p, data) ==
  [q \in DOMAIN tree \cup {p} |-> IF q = p THEN File(data) ELSE tree[q]]

\* fs.readdir(outputRoot, { withFileTypes: true }): the entries that are files
rootFiles(tree) == {q \in DOMAIN tree : Len(q) = 1 /\ tree[q] # Dir}

(***************************************************************************)
(* Export orchestrator (src/export/exporter.ts).                           *)
(***************************************************************************)
isAbsolute(s) == s # << >> /\ Head(s) = "/"

isWindowsDrivePath(s) ==
  /\ Len(s) >= 3
  /\ s[1] \in LowerChars \cup UpperChars
  /\ s[2] = ":"
  /\ s[3] = "\\"

resolveAttachmentSourcePath(attachment) ==
  LET attachmentPath == attachment.path
  IN IF attachmentPath = NULL \/ attachmentPath = << >> THEN NULL
     ELSE IF startsWith(attachmentPath, str_storage)
     THEN LET relativePart == stripLeading(sliceFrom(attachmentPath, Len(str_storage)), {"/", "\\"})
              filename     == orElse(relativePart, attachment.filename)
          IN storagePath \o <<"/">> \o attachment.key \o <<"/">> \o filename
     ELSE IF isAbsolute(attachmentPath) THEN attachmentPath
     ELSE IF isWindowsDrivePath(attachmentPath) THEN attachmentPath
     ELSE NULL

\* the target of a copy without the prefix of the flat layout
getTargetPdfPathUnprefixed(paths, mode, sourceFilename) ==
  dirname(paths.markdownPath) \o <<sanitizeFilename(sourceFilename)>>

getTargetPdfPath(paths, mode, sourceFilename) ==
  LET sanitized == sanitizeFilename(sourceFilename)
      directory == dirname(paths.markdownPath)
  IN IF mode = "flat"
     THEN directory \o <<(IF hasFlatPrefix(paths) THEN paths.flatPrefix ELSE << >>) \o sanitized>>
     ELSE directory \o <<sanitized>>

\* the candidate makeUniqueFilePath probes for a suffix
uniqueCandidate(target, n) ==
  LET parsed == pathParse(basename(target))
  IN dirname(target) \o <<parsed.name \o <<"-">> \o decimal(n) \o parsed.ext>>

\* the external HTML-to-Markdown transform
turndown(html) == <<"markdown of">> \o html

convertNotesToMarkdown(notes) ==
  [i \in 1..Len(notes) |->
     [itemId       |-> notes[i].itemId,
      parentItemId |-> notes[i].parentItemId,
      noteHtml     |-> notes[i].noteHtml,
      noteMarkdown |-> IF Len(trim(notes[i].noteHtml)) > 0
                       THEN turndown(notes[i].noteHtml)
                       ELSE << >>]]

(***************************************************************************)
(* Document renderer (src/export/markdown.ts): the document as its parts.  *)
(***************************************************************************)
str_None == <<"N","o","n","e">>

str_HighlightHeading == <<"#","#","#"," ","H","i","g","h","l","i","g","h","t"," ">>

str_Page == <<"-"," ","P","a","g","e",":"," ">>

str_Color == <<"-"," ","C","o","l","o","r",":"," ">>

str_Quote == <<">"," ">>

str_Comment == <<"C","o","m","m","e","n","t",":"," ">>

str_NoteHeading == <<"#","#","#"," ","N","o","t","e"," ">>

str_Title == <<"T","i","t","l","e",":"," ">>

str_EmptyNote == <<"E","m","p","t","y"," ","n","o","t","e"," ","c","o","n","t","e","n","t",".">>

str_HighlightsSection == <<"#","#"," ","H","i","g","h","l","i","g","h","t","s">>

str_NotesSection == <<"#","#"," ","N","o","t","e","s">>

newline == <<"\n">>

\* parts.join('\n')
joinLines(parts) ==
  flatten([i \in 1..Len(parts) |-> IF i = 1 THEN parts[i] ELSE newline \o parts[i]])

\* an optional string property that is there and not empty
truthy(object, name) ==
  name \in DOMAIN object /\ object[name] # NULL /\ object[name] # << >>

\* the parts the loop of renderHighlights pushes for highlights[index]
highlightParts(highlight, index) ==
  <<str_HighlightHeading \o decimal(index + 1)>>
    \o (IF truthy(highlight, "pageLabel")
        THEN <<str_Page \o highlight.pageLabel>> ELSE << >>)
    \o (IF truthy(highlight, "color")
        THEN <<str_Color \o highlight.color>> ELSE << >>)
    \o (IF truthy(highlight, "text") /\ Len(trim(highlight.text)) > 0
        THEN <<str_Quote \o trim(highlight.text)>> ELSE << >>)
    \o (IF truthy(highlight, "comment") /\ Len(trim(highlight.comment)) > 0
        THEN <<str_Comment \o trim(highlight.comment)>> ELSE << >>)
    \o << << >> >>

\* a renderer that gives no block to a highlight without text
renderHighlightsQuotedOnly(highlights) ==
  LET quoted == SelectSeq(highlights,
                          LAMBDA h : truthy(h, "text") /\ Len(trim(h.text)) > 0)
      parts  == flatten([i \in 1..Len(quoted) |-> highlightParts(quoted[i], i - 1)])
  IN IF Len(quoted) = 0 THEN str_None \o newline
     ELSE trim(joinLines(parts)) \o newline

renderHighlights(highlights) ==
  IF Len(highlights) = 0 THEN str_None \o newline
  ELSE LET parts == flatten([i \in 1..Len(highlights) |->
                               highlightParts(highlights[i], i - 1)])
       IN trim(joinLines(parts)) \o newline

\* the parts the loop of renderNotes pushes for notes[index]
noteParts(note, index) ==
  LET markdown == IF "noteMarkdown" \in DOMAIN note /\ note.noteMarkdown # NULL
                  THEN trim(note.noteMarkdown) ELSE << >>
  IN <<str_NoteHeading \o decimal(index + 1)>>
       \o (IF truthy(note, "title") /\ Len(trim(note.title)) > 0
           THEN <<str_Title \o trim(note.title), << >> >> ELSE << >>)
       \o <<IF Len(markdown) > 0 THEN markdown ELSE str_EmptyNote>>
       \o << << >> >>

renderNotes(notes) ==
  IF Len(notes) = 0 THEN str_None \o newline
  ELSE LET parts == flatten([i \in 1..Len(notes) |-> noteParts(notes[i], i - 1)])
       IN trim(joinLines(parts)) \o newline

\* the document: the object yaml.dump is given, and the text after the
\* front matter ("---", the title, the two sections)
buildMarkdown(payload) ==
  LET title == orElse(payload.item.title, <<"U","n","t","i","t","l","e","d">>)
  IN [frontmatter |-> [zotero_key  |-> payload.item.key,
                       item_id     |-> payload.item.itemId,
                       title       |-> payload.item.title,
                       year        |-> payload.item.year,
                       attachments |-> payload.exportedAttachmentFilenames],
      body        |-> <<"-","-","-","\n","\n","#"," ">> \o title \o newline \o newline
                        \o str_HighlightsSection \o newline \o newline
                        \o renderHighlights(payload.highlights)
                        \o newline \o str_NotesSection \o newline \o newline
                        \o renderNotes(payload.notes)]


LayoutModes == {"item-folder", "flat", "year-item"}

ConflictDecisions == {"overwrite", "skip", "cancel"}

\* what exportItems derives from the aggregate of each item of the store
outputPathsOf ==
  [id \in storeItemIds |->
     [mode \in LayoutModes |->
        resolveItemOutputPaths(mode, buildItemSlug(aggregate[id]), aggregate[id].year)]]

existingTargetOf(paths) ==
  IF hasItemFolder(paths) THEN paths.itemFolder ELSE paths.markdownPath

existingTarget == existingTargetOf(outputPaths)

attachmentOf(id) ==
  item.attachments[CHOOSE k \in 1..Len(item.attachments) : item.attachments[k].itemId = id]

selectedPdfIds == {selectedPdfs[k] : k \in 1..Len(selectedPdfs)}

\* highlights of every PDF attachment of the item, selected or not
filteredHighlightsOfAnyPdf ==
  SelectSeq(item.annotations,
            LAMBDA a : \E k \in 1..Len(pdfAttachments) : a.parentItemId = pdfAttachments[k].itemId)

filteredHighlights ==
  SelectSeq(item.annotations, LAMBDA a : a.parentItemId \in selectedPdfIds)

filteredNotes ==
  SelectSeq(item.notes,
            LAMBDA n : n.parentItemId = item.itemId \/ n.parentItemId \in selectedPdfIds)

markdownPayload ==
  [item                        |-> item,
   selectedAttachments         |-> selectedPdfs,
   exportedAttachmentFilenames |-> copiedPdfNames,
   highlights                  |-> filteredHighlights,
   notes                       |-> convertNotesToMarkdown(filteredNotes)]

\* the ExportResult exportItems creates, and the ways it changes it
newResult == [exported |-> 0, skipped |-> 0, failed |-> 0, cancelled |-> FALSE, warnings |-> << >>]

\* a cancel that stops the batch without marking the result
markCancelledForgotten(res) == res

markCancelled(res) == [res EXCEPT !.cancelled = TRUE]

\* a skip counted as an export
markSkippedAsExported(res) == [res EXCEPT !.exported = @ + 1]

markSkipped(res) == [res EXCEPT !.skipped = @ + 1]

\* an export that is not counted
markExportedForgotten(res) == res

markExported(res) == [res EXCEPT !.exported = @ + 1]

\* a failure counted as a skip
markFailedAsSkipped(res) == [res EXCEPT !.skipped = @ + 1]

markFailed(res) == [res EXCEPT !.failed = @ + 1]

\* a warning that also counts the item as failed
appendWarningAndFail(res, warning) ==
  [res EXCEPT !.warnings = Append(@, warning), !.failed = @ + 1]

appendWarning(res, warning) == [res EXCEPT !.warnings = Append(@, warning)]

\* what the collaborators have observed: loads of the store, answers of the
\* conflict collaborator, prompts of the selection collaborator, copies and
\* writes done, exceptions raised in the loop body, warnings of the item
newObs ==
  [loads |-> 0, conflicts |-> 0, cancels |-> 0, skips |-> 0, overwrites |-> 0,
   selections |-> 0, copies |-> 0, writes |-> 0, raised |-> 0, itemWarnings |-> 0]

\* the destination before the first export: nothing, or a folder that holds
\* files and a directory of the user
userTree ==
  (<< >> :> Dir)
    @@ (<< <<"z",".","t","x","t">> >> :> File(<<"user">>))
    @@ (<< <<"K","1","-","A","-","b","_","_","x",".","t","x","t">> >> :> File(<<"user">>))
    @@ (<< <<"K","1","-","A","-","b","_","_","d">> >> :> Dir)

noTree == [q \in {} |-> Dir]

\* exportCollectionCommand is not running
notMirroring == mirror = [pc |-> "idle"]

\* pickItemsWithThreeLineView has not been called
notPicking == picker = [pc |-> "idle"]

\* no function is called on its own
noCall == call = [op |-> "none"] /\ returned = undefined

\* the command has opened the database exportItems reads
exportDatabase ==
  /\ files = copyFile((sqlitePath :> zoteroDb), sqlitePath, tempPath(1))
  /\ opened = [db |-> zoteroDb, tempDbPath |-> tempPath(1)]
  /\ opens = 1

\* exportItems has not been called
notExporting ==
  /\ pc = "idle"
  /\ layoutMode = "item-folder"
  /\ batchLen = 0
  /\ idx = 0
  /\ item = undefined
  /\ outputPaths = undefined
  /\ pdfAttachments = << >>
  /\ result = undefined
  /\ selectedPdfs = << >>
  /\ attIdx = 0
  /\ copiedPdfNames = << >>
  /\ desiredTargetPath = noPath
  /\ targetPath = noPath
  /\ suffix = 0
  /\ faults = 0
  /\ obs = newObs

Init ==
  /\ fs \in {noTree, userTree}
  /\ notExporting
  /\ notPicking
  /\ noCall
  /\ exportDatabase
  /\ notMirroring

(***************************************************************************)
(* exportItems, one action per step between two suspension points.  The    *)
(* elements of itemSummaries are drawn when the loop reaches them.         *)
(***************************************************************************)
noItem ==
  /\ item' = undefined
  /\ outputPaths' = undefined
  /\ pdfAttachments' = << >>
  /\ selectedPdfs' = << >>
  /\ attIdx' = 0
  /\ copiedPdfNames' = << >>
  /\ desiredTargetPath' = noPath
  /\ targetPath' = noPath
  /\ suffix' = 0

\* a collaborator or a file operation fails
fault == faults < MaxFaults /\ faults' = faults + 1

\* the catch block of the loop body, and the next iteration
catch ==
  /\ result' = markFailed(result)
  /\ idx' = idx + 1
  /\ pc' = "loop"
  /\ noItem

\* exportItems(db, itemSummaries, options) is called
Call(n, mode) ==
  /\ pc = "idle"
  /\ batchLen' = n
  /\ layoutMode' = mode
  /\ pc' = "mkdirRoot"
  /\ result' = undefined
  /\ idx' = 0
  /\ obs' = newObs
  /\ noItem
  /\ UNCHANGED <<fs, faults, aside>>

\* await fs.mkdir(outputRoot, { recursive: true }), then the result is created
MkdirRoot ==
  /\ pc = "mkdirRoot"
  /\ \/ /\ canMkdir(fs, outputRoot)
        /\ fs' = mkdir(fs, outputRoot)
        /\ result' = newResult
        /\ idx' = 1
        /\ pc' = "loop"
        /\ UNCHANGED faults
     \/ /\ fault
        /\ pc' = "thrown"
        /\ UNCHANGED <<fs, result, idx>>
  /\ UNCHANGED <<layoutMode, batchLen, aside, body, obs>>

\* the loop takes the next summary: getItemExportData, buildItemSlug,
\* resolveItemOutputPaths and pathExists(existingTarget)
LoadItem(id) ==
  /\ pc = "loop"
  /\ idx <= batchLen
  /\ IF ~itemExists(zoteroDb, id)
     THEN /\ obs' = [obs EXCEPT !.loads = @ + 1, !.raised = @ + 1]
          /\ catch
     ELSE /\ obs' = [obs EXCEPT !.loads = @ + 1, !.itemWarnings = 0]
          /\ item' = aggregate[id]
          /\ outputPaths' = outputPathsOf[id][layoutMode]
          /\ pc' = IF pathExists(fs, existingTarget') THEN "resolveConflict" ELSE "mkdirItem"
          /\ UNCHANGED <<result, idx, pdfAttachments, selectedPdfs, attIdx, copiedPdfNames,
                         desiredTargetPath, targetPath, suffix>>
  /\ UNCHANGED <<fs, layoutMode, batchLen, aside, faults>>

\* await options.resolveConflict(existingTarget, item)
ResolveConflict(decision) ==
  /\ pc = "resolveConflict"
  /\ obs' = [obs EXCEPT !.conflicts = @ + 1,
                         !.cancels = IF decision = "cancel" THEN @ + 1 ELSE @,
                         !.skips = IF decision = "skip" THEN @ + 1 ELSE @,
                         !.overwrites = IF decision = "overwrite" THEN @ + 1 ELSE @]
  /\ CASE decision = "cancel" ->
            /\ result' = markCancelled(result)
            /\ pc' = "done"
            /\ noItem
            /\ UNCHANGED <<idx, faults>>
       [] decision = "skip" ->
            /\ result' = markSkipped(result)
            /\ idx' = idx + 1
            /\ pc' = "loop"
            /\ noItem
            /\ UNCHANGED faults
       [] decision = "overwrite" ->
            /\ pc' = "removeExistingTarget"
            /\ UNCHANGED <<result, idx, body, faults>>
  /\ UNCHANGED <<fs, layoutMode, batchLen, aside>>

\* options.resolveConflict rejects
ResolveConflictThrows ==
  /\ pc = "resolveConflict"
  /\ fault
  /\ obs' = [obs EXCEPT !.conflicts = @ + 1, !.raised = @ + 1]
  /\ catch
  /\ UNCHANGED <<fs, layoutMode, batchLen, aside>>

\* a sweep that does not look at entry.isFile()
sweptFilesAndDirectories(tree, paths) ==
  IF ~hasFlatPrefix(paths) \/ paths.flatPrefix = << >> \/ ~pathExists(tree, outputRoot)
  THEN {}
  ELSE {q \in DOMAIN tree : Len(q) = 1 /\ startsWith(q[1], paths.flatPrefix)}

\* an overwrite in flat layout that removes the markdown file only
sweptFilesForgotten(tree, paths) == {}

\* the files removeExistingTarget sweeps in flat layout
sweptFiles(tree, paths) ==
  IF ~hasFlatPrefix(paths) \/ paths.flatPrefix = << >> \/ ~pathExists(tree, outputRoot)
  THEN {}
  ELSE {q \in rootFiles(tree) : startsWith(q[1], paths.flatPrefix)}

\* the tree removeExistingTarget leaves when no operation fails
removeExistingTarget(tree, paths) ==
  IF hasItemFolder(paths)
  THEN IF pathExists(tree, paths.itemFolder) THEN rmRecursive(tree, paths.itemFolder) ELSE tree
  ELSE LET afterMarkdown == IF pathExists(tree, paths.markdownPath)
                            THEN rmAll(tree, {paths.markdownPath})
                            ELSE tree
       IN rmAll(afterMarkdown, sweptFiles(afterMarkdown, paths))

\* TRUE when an operation of removeExistingTarget must fail
removeExistingTargetFails(tree, paths) ==
  ~hasItemFolder(paths) /\ ~canRm(tree, paths.markdownPath)

\* the trees removeExistingTarget can leave when one of its operations fails:
\* nothing removed, or the markdown file and some of the swept files removed
removeExistingTargetPartial(tree, paths) ==
  IF hasItemFolder(paths) \/ ~canRm(tree, paths.markdownPath)
  THEN {tree}
  ELSE LET afterMarkdown == rmAll(tree, {paths.markdownPath})
           swept         == sweptFiles(afterMarkdown, paths)
       IN {tree} \cup {rmAll(afterMarkdown, gone) : gone \in (SUBSET swept) \ {swept}}

\* await removeExistingTarget(outputRoot, markdownPath, itemFolder, flatPrefix)
RemoveExistingTarget ==
  /\ pc = "removeExistingTarget"
  /\ \/ /\ ~removeExistingTargetFails(fs, outputPaths)
        /\ fs' = removeExistingTarget(fs, outputPaths)
        /\ pc' = "mkdirItem"
        /\ UNCHANGED <<result, idx, body, faults, obs>>
     \/ /\ \/ fault
           \/ /\ removeExistingTargetFails(fs, outputPaths)
              /\ UNCHANGED faults
        /\ fs' \in removeExistingTargetPartial(fs, outputPaths)
        /\ obs' = [obs EXCEPT !.raised = @ + 1]
        /\ catch
  /\ UNCHANGED <<layoutMode, batchLen, aside>>

\* item.attachments.filter((attachment) => attachment.isPdf)
filterPdfAttachments(attachments) == SelectSeq(attachments, LAMBDA a : a.isPdf)

\* a prompt for a single candidate too
asksSelectionWhenAny(candidates) == Len(candidates) > 0

\* if (pdfAttachments.length > 1): the selection collaborator is asked
asksSelection(candidates) == Len(candidates) > 1

\* a copy loop that leaves the body after the last attachment
afterAttachmentPcLeavingItem(k, n) == IF k < n THEN "copyLoop" ELSE "loop"

\* where the body goes after the attachment at position k of n
afterAttachmentPc(k, n) == IF k < n THEN "copyLoop" ELSE "write"

\* await fs.mkdir(path.dirname(markdownPath), { recursive: true }), then the
\* PDF attachments are filtered and, when at most one, all selected
MkdirItem ==
  /\ pc = "mkdirItem"
  /\ \/ /\ canMkdir(fs, dirname(outputPaths.markdownPath))
        /\ fs' = mkdir(fs, dirname(outputPaths.markdownPath))
        /\ pdfAttachments' = filterPdfAttachments(item.attachments)
        /\ IF asksSelection(pdfAttachments')
           THEN /\ pc' = "selectPdfAttachments"
                /\ UNCHANGED <<selectedPdfs, attIdx>>
           ELSE /\ selectedPdfs' = [k \in 1..Len(pdfAttachments') |-> pdfAttachments'[k].itemId]
                /\ attIdx' = 1
                /\ pc' = afterAttachmentPc(0, Len(pdfAttachments'))
        /\ UNCHANGED <<result, idx, item, outputPaths, copiedPdfNames, desiredTargetPath,
                       targetPath, suffix, faults, obs>>
     \/ /\ \/ fault
           \/ /\ ~canMkdir(fs, dirname(outputPaths.markdownPath))
              /\ UNCHANGED faults
        /\ obs' = [obs EXCEPT !.raised = @ + 1]
        /\ catch
        /\ UNCHANGED fs
  /\ UNCHANGED <<layoutMode, batchLen, aside>>

\* the largest number of PDF attachments an item of the store has
maxPdfAttachments ==
  CHOOSE n \in 0..Cardinality(itemAttachmentsTable) :
    /\ \A id \in storeItemIds : Len(aggregate[id].attachments) <= n
    /\ \E id \in storeItemIds : Len(aggregate[id].attachments) = n

\* the sub-sequence of s at the positions in keep
RECURSIVE subSequence(_, _)
subSequence(s, keep) ==
  IF s = << >> THEN << >>
  ELSE (IF 1 \in keep THEN <<Head(s)>> ELSE << >>)
         \o subSequence(Tail(s), {k - 1 : k \in keep \ {1}})

\* await options.selectPdfAttachments(item, pdfAttachments): a chosen subset
SelectPdfAttachments(keep) ==
  /\ pc = "selectPdfAttachments"
  /\ keep \subseteq 1..Len(pdfAttachments)
  /\ selectedPdfs' = subSequence([k \in 1..Len(pdfAttachments) |-> pdfAttachments[k].itemId], keep)
  /\ attIdx' = 1
  /\ pc' = afterAttachmentPc(0, Cardinality(keep))
  /\ obs' = [obs EXCEPT !.selections = @ + 1]
  /\ UNCHANGED <<fs, layoutMode, batchLen, aside, idx, item, outputPaths, pdfAttachments, result,
                 copiedPdfNames, desiredTargetPath, targetPath, suffix, faults>>

\* options.selectPdfAttachments rejects
SelectPdfAttachmentsThrows ==
  /\ pc = "selectPdfAttachments"
  /\ fault
  /\ obs' = [obs EXCEPT !.selections = @ + 1, !.raised = @ + 1]
  /\ catch
  /\ UNCHANGED <<fs, layoutMode, batchLen, aside>>

unsupportedWarning(attachment) ==
  [item |-> item.key, problem |-> "unsupported attachment path format", of |-> attachment.filename]

notFoundWarning(sourcePath) ==
  [item |-> item.key, problem |-> "attachment file not found", of |-> sourcePath]

\* the next attachment of selectedPdfs: its source path is resolved and
\* probed; a warning, or the call of makeUniqueFilePath
NextAttachment ==
  /\ pc = "copyLoop"
  /\ LET attachment == attachmentOf(selectedPdfs[attIdx])
         sourcePath == resolveAttachmentSourcePath(attachment)
     IN IF sourcePath = NULL
        THEN /\ result' = appendWarning(result, unsupportedWarning(attachment))
             /\ attIdx' = attIdx + 1
             /\ pc' = afterAttachmentPc(attIdx, Len(selectedPdfs))
             /\ obs' = [obs EXCEPT !.itemWarnings = @ + 1]
             /\ UNCHANGED desiredTargetPath
        ELSE IF sourcePath \notin sourceFiles
        THEN /\ result' = appendWarning(result, notFoundWarning(sourcePath))
             /\ attIdx' = attIdx + 1
             /\ pc' = afterAttachmentPc(attIdx, Len(selectedPdfs))
             /\ obs' = [obs EXCEPT !.itemWarnings = @ + 1]
             /\ UNCHANGED desiredTargetPath
        ELSE /\ desiredTargetPath' = getTargetPdfPath(outputPaths, layoutMode, attachment.filename)
             /\ pc' = "makeUniqueFilePath"
             /\ UNCHANGED <<result, attIdx, obs>>
  /\ UNCHANGED <<fs, layoutMode, batchLen, aside, idx, item, outputPaths, pdfAttachments,
                 selectedPdfs, copiedPdfNames, targetPath, suffix, faults>>

\* a makeUniqueFilePath that returns its argument without probing it
MakeUniqueFilePathUnprobed ==
  /\ pc = "makeUniqueFilePath"
  /\ targetPath' = desiredTargetPath
  /\ pc' = "copyFile"
  /\ UNCHANGED suffix
  /\ UNCHANGED <<fs, layoutMode, batchLen, aside, idx, item, outputPaths, pdfAttachments, result,
                 selectedPdfs, attIdx, copiedPdfNames, desiredTargetPath, faults, obs>>

\* makeUniqueFilePath(desiredTargetPath): the first probe
MakeUniqueFilePath ==
  /\ pc = "makeUniqueFilePath"
  /\ IF ~pathExists(fs, desiredTargetPath)
     THEN /\ targetPath' = desiredTargetPath
          /\ pc' = "copyFile"
          /\ UNCHANGED suffix
     ELSE /\ suffix' = 2
          /\ pc' = "uniqueLoop"
          /\ UNCHANGED targetPath
  /\ UNCHANGED <<fs, layoutMode, batchLen, aside, idx, item, outputPaths, pdfAttachments, result,
                 selectedPdfs, attIdx, copiedPdfNames, desiredTargetPath, faults, obs>>

\* a loop that returns its first candidate without probing it
UniqueLoopOnce ==
  /\ pc = "uniqueLoop"
  /\ targetPath' = uniqueCandidate(desiredTargetPath, suffix)
  /\ suffix' = 0
  /\ pc' = "copyFile"
  /\ UNCHANGED <<fs, layoutMode, batchLen, aside, idx, item, outputPaths, pdfAttachments, result,
                 selectedPdfs, attIdx, copiedPdfNames, desiredTargetPath, faults, obs>>

\* makeUniqueFilePath: one iteration of while (true)
UniqueLoop ==
  /\ pc = "uniqueLoop"
  /\ LET candidate == uniqueCandidate(desiredTargetPath, suffix)
     IN IF ~pathExists(fs, candidate)
        THEN /\ targetPath' = candidate
             /\ suffix' = 0
             /\ pc' = "copyFile"
        ELSE /\ suffix' = suffix + 1
             /\ UNCHANGED <<targetPath, pc>>
  /\ UNCHANGED <<fs, layoutMode, batchLen, aside, idx, item, outputPaths, pdfAttachments, result,
                 selectedPdfs, attIdx, copiedPdfNames, desiredTargetPath, faults, obs>>

\* await fs.copyFile(sourcePath, targetPath), then the basename is recorded
CopyFile ==
  /\ pc = "copyFile"
  /\ LET sourcePath == resolveAttachmentSourcePath(attachmentOf(selectedPdfs[attIdx]))
     IN \/ /\ canWriteFile(fs, targetPath)
           /\ fs' = writeFile(fs, targetPath, <<"copy", sourcePath>>)
           /\ copiedPdfNames' = Append(copiedPdfNames, basename(targetPath))
           /\ attIdx' = attIdx + 1
           /\ pc' = afterAttachmentPc(attIdx, Len(selectedPdfs))
           /\ desiredTargetPath' = noPath
           /\ targetPath' = noPath
           /\ obs' = [obs EXCEPT !.copies = @ + 1]
           /\ UNCHANGED <<result, idx, item, outputPaths, pdfAttachments, selectedPdfs,
                          suffix, faults>>
        \/ /\ \/ fault
              \/ /\ ~canWriteFile(fs, targetPath)
                 /\ UNCHANGED faults
           /\ obs' = [obs EXCEPT !.raised = @ + 1]
           /\ catch
           /\ UNCHANGED fs
  /\ UNCHANGED <<layoutMode, batchLen, aside>>

\* exported counted before the write is awaited
writeFileRejectsAfterCounting ==
  /\ \/ fault
     \/ /\ ~canWriteFile(fs, outputPaths.markdownPath)
        /\ UNCHANGED faults
  /\ obs' = [obs EXCEPT !.raised = @ + 1]
  /\ result' = markFailed(markExported(result))
  /\ idx' = idx + 1
  /\ pc' = "loop"
  /\ noItem
  /\ UNCHANGED fs

\* fs.writeFile(markdownPath, markdown) rejects
writeFileRejects ==
  /\ \/ fault
     \/ /\ ~canWriteFile(fs, outputPaths.markdownPath)
        /\ UNCHANGED faults
  /\ obs' = [obs EXCEPT !.raised = @ + 1]
  /\ catch
  /\ UNCHANGED fs

\* highlights and notes are filtered, the notes converted, the document
\* rendered; await fs.writeFile(markdownPath, markdown), then exported += 1
WriteMarkdown ==
  /\ pc = "write"
  /\ \/ /\ canWriteFile(fs, outputPaths.markdownPath)
        /\ fs' = writeFile(fs, outputPaths.markdownPath,
                           <<"markdown", buildMarkdown(markdownPayload)>>)
        /\ result' = markExported(result)
        /\ idx' = idx + 1
        /\ pc' = "loop"
        /\ noItem
        /\ obs' = [obs EXCEPT !.writes = @ + 1]
        /\ UNCHANGED faults
     \/ writeFileRejects
  /\ UNCHANGED <<layoutMode, batchLen, aside>>

\* the loop is over: return result
Return ==
  /\ pc = "loop"
  /\ idx > batchLen
  /\ pc' = "done"
  /\ UNCHANGED <<fs, layoutMode, batchLen, aside, idx, result, body, faults, obs>>

Next ==
  \/ \E n \in 0..MaxBatch, mode \in LayoutModes : Call(n, mode)
  \/ MkdirRoot
  \/ \E id \in storeItemIds \cup {missingItemId} : LoadItem(id)
  \/ \E decision \in ConflictDecisions : ResolveConflict(decision)
  \/ ResolveConflictThrows
  \/ RemoveExistingTarget
  \/ MkdirItem
  \/ \E keep \in SUBSET (1..maxPdfAttachments) : SelectPdfAttachments(keep)
  \/ SelectPdfAttachmentsThrows
  \/ NextAttachment
  \/ MakeUniqueFilePath
  \/ UniqueLoop
  \/ CopyFile
  \/ WriteMarkdown
  \/ Return

Spec == Init /\ [][Next]_vars

(***************************************************************************)
(* makeUniqueFilePath on its own (src/export/naming.ts): a call with any   *)
(* of the probe targets, in a directory where any of the target and its    *)
(* first candidates exist, as files or as directories.                     *)
(***************************************************************************)
probeTargets ==
  {<< <<"d","o","c",".","p","d","f">> >>,
   << <<"s","u","b">>, <<"d","o","c",".","p","d","f">> >>,
   << <<"d","o","c">> >>,
   << <<".","e","n","v">> >>,
   << <<"a",".","t","a","r",".","g","z">> >>}

probePaths(target) ==
  {target} \cup {uniqueCandidate(target, n) : n \in 2..MaxProbeFiles}

probeTree(target, taken, dirs) ==
  [q \in prefixes(dirname(target)) \cup taken |->
     IF q \in dirs \/ q \notin taken THEN Dir ELSE File(<<"taken">>)]

InitUnique ==
  /\ \E target \in probeTargets :
       \E taken \in SUBSET probePaths(target) :
         \E dirs \in {{}, taken} :
           /\ fs = probeTree(target, taken, dirs)
           /\ desiredTargetPath = target
  /\ pc = "makeUniqueFilePath"
  /\ layoutMode = "item-folder"
  /\ batchLen = 0
  /\ idx = 0
  /\ item = undefined
  /\ outputPaths = undefined
  /\ pdfAttachments = << >>
  /\ result = undefined
  /\ selectedPdfs = << >>
  /\ attIdx = 0
  /\ copiedPdfNames = << >>
  /\ targetPath = noPath
  /\ suffix = 0
  /\ faults = 0
  /\ obs = newObs
  /\ noCall
  /\ exportDatabase
  /\ notPicking
  /\ notMirroring

NextUnique == MakeUniqueFilePath \/ UniqueLoop

\* a call that is not blocked makes its next probe
SpecUnique == InitUnique /\ [][NextUnique]_vars /\ WF_vars(NextUnique)

(***************************************************************************)
(* The naming engine on its own (src/export/naming.ts): each function is   *)
(* called once with arguments drawn from the strings below.                *)
(***************************************************************************)
\* letters, a digit, the characters the sanitizer treats specially, white
\* space, a character it drops and one that NFKD decomposes
InputChars == {"a", "Z", "7", ".", "_", "-", " ", "!", "é"}

strings(n) == UNION {[1..k -> InputChars] : k \in 0..n}

\* long enough for the cap to cut inside what follows it
padding == [i \in 1..(MAX_SLUG_LENGTH - 2) |-> "a"]

\* the input of the test "sanitizes slug segment"
str_study ==
  <<" "," ","A"," ","S","t","u","d","y",":"," ","L","a","n","g","u","a","g","e"," ","&"," ",
    "T","h","o","u","g","h","t","!"," "," ">>

segmentInputs(n) ==
  strings(n) \cup {padding \o w : w \in strings(n)} \cup {str_study}

sanitizeSegmentCalls(n) == {[op |-> "sanitizeSegment", input |-> s] : s \in segmentInputs(n)}

\* the arguments of the test "builds item slug from key and title"
str_ABCD1234 == <<"A","B","C","D","1","2","3","4">>

str_My_Title_Here == <<"M","y",":"," ","T","i","t","l","e"," ","H","e","r","e">>

itemKeys == {str_ABCD1234, <<"K">>}

buildItemSlugCalls(n) ==
  {[op |-> "buildItemSlug", item |-> [key |-> k, title |-> t]] :
     k \in itemKeys, t \in segmentInputs(n) \cup {str_My_Title_Here}}

\* slugs that buildItemSlug returns
slugs ==
  {buildItemSlug([key |-> str_ABCD1234, title |-> str_My_Title_Here]),
   buildItemSlug([key |-> <<"K">>, title |-> << >>]),
   buildItemSlug([key |-> <<"K">>, title |-> <<"a", ".", "Z">>])}

\* the year of an item: absent, four digits as extractYear returns them, or
\* any short string
years(n) == {NULL, <<"2", "0", "2", "0">>} \cup strings(n - 1)

resolveItemOutputPathsCalls(n) ==
  {[op |-> "resolveItemOutputPaths", layoutMode |-> m, slug |-> g, year |-> y] :
     m \in {"item-folder", "flat", "year-item"}, g \in slugs, y \in years(n)}

\* getTargetPdfPath for the paths of an item and the filename of an attachment
getTargetPdfPathCalls(n) ==
  {[op |-> "getTargetPdfPath", layoutMode |-> m, slug |-> g, year |-> <<"2", "0", "2", "0">>,
    sourceFilename |-> f] :
     m \in {"item-folder", "flat", "year-item"}, g \in slugs, f \in strings(n)}

namingCalls(n) ==
  sanitizeSegmentCalls(n) \cup buildItemSlugCalls(n) \cup resolveItemOutputPathsCalls(n)
    \cup getTargetPdfPathCalls(n)

InitNaming ==
  /\ call \in namingCalls(MaxInputLen)
  /\ returned = undefined
  /\ fs = noTree
  /\ notExporting
  /\ notPicking
  /\ exportDatabase
  /\ notMirroring

SanitizeSegment ==
  /\ call.op = "sanitizeSegment"
  /\ returned = undefined
  /\ returned' = [value |-> sanitizeSegment(call.input)]
  /\ UNCHANGED <<call, files, opened, opens, mirror, picker, exporting>>

BuildItemSlug ==
  /\ call.op = "buildItemSlug"
  /\ returned = undefined
  /\ returned' = [value |-> buildItemSlug(call.item)]
  /\ UNCHANGED <<call, files, opened, opens, mirror, picker, exporting>>

ResolveItemOutputPaths ==
  /\ call.op = "resolveItemOutputPaths"
  /\ returned = undefined
  /\ returned' = [value |-> resolveItemOutputPaths(call.layoutMode, call.slug, call.year)]
  /\ UNCHANGED <<call, files, opened, opens, mirror, picker, exporting>>

GetTargetPdfPath ==
  /\ call.op = "getTargetPdfPath"
  /\ returned = undefined
  /\ returned' =
       [value |-> getTargetPdfPath(resolveItemOutputPaths(call.layoutMode, call.slug, call.year),
                                   call.layoutMode, call.sourceFilename)]
  /\ UNCHANGED <<call, files, opened, opens, mirror, picker, exporting>>

NextNaming ==
  \/ SanitizeSegment
  \/ BuildItemSlug
  \/ ResolveItemOutputPaths
  \/ GetTargetPdfPath

SpecNaming == InitNaming /\ [][NextNaming]_vars

(***************************************************************************)
(* The databases the queries are checked on.  Items 1 and 2 are top-level  *)
(* items, 11 and 12 attachments, 21.. notes, 31 and 32 annotations.        *)
(***************************************************************************)
emptyDb ==
  [items           |-> {},
   itemData        |-> {},
   itemCreators    |-> {},
   itemTags        |-> {},
   itemAttachments |-> {},
   itemNotes       |-> {},
   itemAnnotations |-> {},
   collections     |-> {},
   collectionItems |-> {}]

itemRow(id, typeName, dateModified) ==
  [itemID |-> id, key |-> <<"K">> \o decimal(id), typeName |-> typeName,
   dateModified |-> dateModified]

topLevelRows == {itemRow(1, "journalArticle", <<"2">>), itemRow(2, "book", <<"3">>)}

attachmentRows == {itemRow(11, "attachment", <<"2">>), itemRow(12, "attachment", <<"2">>)}

noteIds == 21..(20 + MaxNotes)

\* the parents of the attachments 11 and 12, of each note (nullId: the note
\* is not there) and of the annotation 32 (nullId: it is not there) vary
noteStores(notes) ==
  {[emptyDb EXCEPT
      !.items = topLevelRows \cup attachmentRows
                  \cup {itemRow(n, "note", <<"1">>) : n \in {m \in notes : np[m] # nullId}},
      !.itemAttachments =
         {[itemID |-> 11, parentItemID |-> p11, contentType |-> str_pdfType,
           path |-> str_storage \o <<"d",".","p","d","f">>],
          [itemID |-> 12, parentItemID |-> p12, contentType |-> NULL,
           path |-> str_storage \o <<"n",".","P","D","F">>]},
      !.itemNotes =
         {[itemID |-> n, parentItemID |-> np[n], note |-> <<"n">>] :
            n \in {m \in notes : np[m] # nullId}},
      !.itemAnnotations =
         {[itemID |-> 31, parentItemID |-> 11, sortIndex |-> <<"2">>]}
           \cup (IF p32 = nullId THEN {}
                 ELSE {[itemID |-> 32, parentItemID |-> p32, sortIndex |-> <<"1">>]})] :
     p11 \in {1, 2}, p12 \in {nullId, 1, 2}, np \in [notes -> {nullId, 1, 2, 11, 12}],
     p32 \in {nullId, 11, 12}}

collectionIds == 1..MaxCollections

\* the parents of the collections that make a forest
forests ==
  {p \in [collectionIds -> {nullId} \cup collectionIds] :
     \E rank \in [collectionIds -> collectionIds] :
       \A c \in collectionIds : p[c] # nullId => rank[p[c]] < rank[c]}

\* the forest and the collections of items 1 and 2 vary: item 1 is a member of
\* any of them, item 2 of none or of the last; the attachment 11 is a member
\* of collection 1
collectionStores(ids) ==
  {[emptyDb EXCEPT
      !.items = topLevelRows \cup attachmentRows,
      !.collections =
         {[collectionID |-> c, collectionName |-> <<"C">> \o decimal(c),
           parentCollectionID |-> p[c]] : c \in ids},
      !.collectionItems =
         {[collectionID |-> c, itemID |-> 1] : c \in of1}
           \cup {[collectionID |-> c, itemID |-> 2] : c \in of2}
           \cup {[collectionID |-> 1, itemID |-> 11]}] :
     p \in forests, of1 \in SUBSET ids, of2 \in {{}, {MaxCollections}}}

str_distributed == <<"d","i","s","t","r","i","b","u","t","e","d">>

textValues == {<<"A", "b">>, <<"a", "X", "b">>, <<"É">>}

\* item 1 with one value in one of the columns searchItems looks at, or in
\* none; item 2 is older, newer, as old as item 1 or has no timestamp
textStores ==
  {[emptyDb EXCEPT
      !.items = {itemRow(1, "journalArticle", <<"2">>), itemRow(2, "book", modified),
                 itemRow(11, "attachment", <<"9">>)},
      !.itemData =
         {[itemID |-> 2, fieldName |-> "title", value |-> <<"x", "b">>],
          [itemID |-> 11, fieldName |-> "title", value |-> <<"A", "b">>]}
           \cup (IF column \in {"title", "date", "DOI"}
                 THEN {[itemID |-> 1, fieldName |-> column, value |-> v]}
                 ELSE {}),
      !.itemCreators =
         IF column = "creator"
         THEN {[itemID |-> 1, orderIndex |-> 0, lastName |-> v, firstName |-> NULL]}
         ELSE {},
      !.itemTags =
         IF column = "tag" THEN {[itemID |-> 1, tagID |-> 1, name |-> v]} ELSE {}] :
     column \in {"title", "date", "DOI", "creator", "tag", "none"},
     v \in textValues,
     modified \in {<<"1">>, <<"2">>, <<"3">>, NULL}}

\* the database of test/queries.test.ts
testDb ==
  [emptyDb EXCEPT
     !.items = {[itemID |-> 1, key |-> <<"I","T","E","M","1","K","E","Y">>,
                 typeName |-> "journalArticle", dateModified |-> <<"2">>],
                [itemID |-> 2, key |-> <<"I","T","E","M","2","K","E","Y">>,
                 typeName |-> "journalArticle", dateModified |-> <<"3">>],
                [itemID |-> 11, key |-> <<"A","T","T","A","C","H","1">>,
                 typeName |-> "attachment", dateModified |-> <<"2">>]},
     !.itemData = {[itemID |-> 1, fieldName |-> "title",
                    value |-> <<"D","i","s","t","r","i","b","u","t","e","d"," ",
                                "C","o","g","n","i","t","i","o","n">>],
                   [itemID |-> 1, fieldName |-> "date", value |-> <<"1","9","9","5">>],
                   [itemID |-> 1, fieldName |-> "DOI",
                    value |-> <<"1","0",".","1","2","3","4","/","d","e","m","o">>],
                   [itemID |-> 2, fieldName |-> "title",
                    value |-> <<"G","r","o","u","p"," ","L","i","b","r","a","r","y"," ",
                                "P","a","p","e","r">>]},
     !.itemCreators = {[itemID |-> 1, orderIndex |-> 0,
                        lastName |-> <<"H","u","t","c","h","i","n","s">>,
                        firstName |-> <<"E","d","w","i","n">>]},
     !.itemTags = {[itemID |-> 1, tagID |-> 1,
                    name |-> <<"c","o","g","n","i","t","i","o","n">>]},
     !.collections = {[collectionID |-> 1, collectionName |-> <<"T","o","p">>,
                       parentCollectionID |-> nullId],
                      [collectionID |-> 2, collectionName |-> <<"C","h","i","l","d">>,
                       parentCollectionID |-> 1]},
     !.collectionItems = {[collectionID |-> 2, itemID |-> 1]},
     !.itemAttachments = {[itemID |-> 11, parentItemID |-> 1, contentType |-> str_pdfType,
                           path |-> str_storage \o <<"p","a","p","e","r",".","p","d","f">>]},
     !.itemNotes = {[itemID |-> 21, parentItemID |-> 1, note |-> <<"i">>],
                    [itemID |-> 22, parentItemID |-> 11, note |-> <<"a">>]},
     !.itemAnnotations = {[itemID |-> 31, parentItemID |-> 11,
                           sortIndex |-> <<"0","0","0","1">>]}]

\* the content type and the path of attachment 11 of item 1 vary: no content
\* type, PDF, HTML; no path, a PDF or an HTML file in the storage, in either
\* case of the extension, or the storage prefix alone
attachmentStores ==
  {[emptyDb EXCEPT
      !.items = topLevelRows \cup attachmentRows,
      !.itemAttachments =
         {[itemID |-> 11, parentItemID |-> 1, contentType |-> contentType, path |-> attachmentPath],
          [itemID |-> 12, parentItemID |-> 1, contentType |-> str_pdfType,
           path |-> str_storage \o <<"d",".","p","d","f">>]}] :
     contentType \in {NULL, str_pdfType, str_htmlType},
     attachmentPath \in {NULL, str_storage,
                         str_storage \o <<"n",".","p","d","f">>,
                         str_storage \o <<"n",".","P","D","F">>,
                         str_storage \o <<"s",".","h","t","m","l">>}}

stores(notes, ids) ==
  noteStores(notes) \cup collectionStores(ids) \cup textStores \cup attachmentStores \cup {testDb}

searchTexts ==
  {<< >>, <<" ">>, <<"b">>, <<" ", "B", " ">>, <<"q">>, <<"a", "_", "b">>, <<"%">>, <<"É">>,
   str_distributed}

limits == 0..MaxLimit

(***************************************************************************)
(* A command on the database (src/commands): it opens the database, asks   *)
(* its queries and cleans up.                                              *)
(***************************************************************************)
InitStore ==
  /\ \E db \in stores(noteIds, collectionIds) : files = (sqlitePath :> db)
  /\ opened = undefined
  /\ opens = 0
  /\ noCall
  /\ fs = noTree
  /\ notExporting
  /\ notPicking
  /\ notMirroring

\* openZoteroDatabase(sqlitePath)
OpenZoteroDatabase ==
  /\ opened = undefined
  /\ opens < MaxOpens
  /\ opens' = opens + 1
  /\ files' = copyDatabaseToTemp(files, opens + 1)
  /\ \/ opened' = [db |-> files'[tempPath(opens + 1)], tempDbPath |-> tempPath(opens + 1)]
     \/ opened' = undefined   \* getSqlJs or fs.readFile rejects
  /\ UNCHANGED <<call, returned, mirror, picker, exporting>>

SearchItems(searchText, limit) ==
  /\ opened # undefined
  /\ call.op = "none"
  /\ call' = [op |-> "searchItems", searchText |-> searchText, limit |-> limit]
  /\ \E rows \in searchItems(opened.db, searchText, limit) : returned' = [value |-> rows]
  /\ UNCHANGED <<files, opened, opens, mirror, picker, exporting>>

GetCollectionItemSummaries(collectionId, limit) ==
  /\ opened # undefined
  /\ call.op = "none"
  /\ call' = [op |-> "getCollectionItemSummaries", collectionId |-> collectionId,
              limit |-> limit]
  /\ \E rows \in getCollectionItemSummaries(opened.db, collectionId, limit) :
       returned' = [value |-> rows]
  /\ UNCHANGED <<files, opened, opens, mirror, picker, exporting>>

GetDirectCollectionItemSummaries(collectionId, limit) ==
  /\ opened # undefined
  /\ call.op = "none"
  /\ call' = [op |-> "getDirectCollectionItemSummaries", collectionId |-> collectionId,
              limit |-> limit]
  /\ \E rows \in getDirectCollectionItemSummaries(opened.db, collectionId, limit) :
       returned' = [value |-> rows]
  /\ UNCHANGED <<files, opened, opens, mirror, picker, exporting>>

GetItemExportData(itemId) ==
  /\ opened # undefined
  /\ call.op = "none"
  /\ call' = [op |-> "getItemExportData", itemId |-> itemId]
  /\ returned' = IF itemExists(opened.db, itemId)
                 THEN [value |-> getItemExportData(opened.db, itemId)]
                 ELSE [thrown |-> "Could not load Zotero item"]
  /\ UNCHANGED <<files, opened, opens, mirror, picker, exporting>>

\* the command goes on with what the query returned
UseResult ==
  /\ call.op # "none"
  /\ call' = [op |-> "none"]
  /\ returned' = undefined
  /\ UNCHANGED <<files, opened, opens, mirror, picker, exporting>>

\* opened.cleanup(): db.close() and fs.rm(tempDbPath, { force: true })
Cleanup ==
  /\ opened # undefined
  /\ files' = rmForce(files, removedByCleanup(opened))
  /\ opened' = undefined
  /\ call' = [op |-> "none"]
  /\ returned' = undefined
  /\ UNCHANGED <<opens, mirror, picker, exporting>>

NextStore ==
  \/ OpenZoteroDatabase
  \/ \E searchText \in searchTexts, limit \in limits : SearchItems(searchText, limit)
  \/ \E collectionId \in collectionIds, limit \in {1, DEFAULT_LIMIT} :
       GetCollectionItemSummaries(collectionId, limit)
  \/ \E collectionId \in collectionIds, limit \in {1, DEFAULT_LIMIT} :
       GetDirectCollectionItemSummaries(collectionId, limit)
  \/ \E itemId \in {1, 2, 11, missingItemId} : GetItemExportData(itemId)
  \/ UseResult
  \/ Cleanup

SpecStore == InitStore /\ [][NextStore]_vars

(***************************************************************************)
(* Properties of exportItems.                                              *)
(***************************************************************************)

\* C1. Partial-failure isolation: whenever the loop body raises for an item
\* (its aggregate cannot be loaded, a collaborator rejects, or a directory
\* creation, removal, copy or write fails), failed grows by exactly one,
\* exported, skipped and cancelled stay as they were and the loop goes on with
\* the next item; a run that is not cancelled has loaded every item of the
\* batch when it returns.
C1_PartialFailureIsolation ==
  /\ [][obs'.raised # obs.raised =>
          /\ obs'.raised = obs.raised + 1
          /\ result'.failed = result.failed + 1
          /\ result'.exported = result.exported
          /\ result'.skipped = result.skipped
          /\ result'.cancelled = result.cancelled
          /\ pc' = "loop"
          /\ idx' = idx + 1]_vars
  /\ [](pc = "done" /\ ~result.cancelled => obs.loads = batchLen)

\* the first item of a batch has failed and the second one has reached the
\* point where its document is written
C1_Witness ==
  /\ pc = "write"
  /\ idx = 2
  /\ obs.raised = 1
  /\ result.failed = 1
  /\ result.exported = 0

\* C2. Cancel semantics: the step in which the conflict collaborator answers
\* cancel marks the result cancelled, leaves the destination as it is and
\* ends the call; nothing happens after the call has ended, so no later item
\* is loaded, prompted for or written; and the result is cancelled exactly
\* when a conflict decision was cancel, the loads then being those of the
\* items up to the cancelling one.
C2_CancelSemantics ==
  /\ [][obs'.cancels # obs.cancels =>
          /\ result'.cancelled
          /\ pc' = "done"
          /\ fs' = fs
          /\ idx' = idx]_vars
  /\ [][pc # "done"]_vars
  /\ [](result # undefined =>
          /\ result.cancelled <=> obs.cancels > 0
          /\ result.cancelled => pc = "done" /\ obs.loads = idx /\ idx <= batchLen)

\* a call has ended on a cancel with items of the batch left
C2_Witness ==
  /\ pc = "done"
  /\ result.cancelled
  /\ obs.cancels = 1
  /\ idx < batchLen

\* C3. Skip semantics: the step in which the decision is skip finds the target
\* of the item existing, leaves the whole destination as it was, adds one to
\* skipped and changes nothing else of the result, issues no prompt, copies
\* and writes nothing, and goes on with the next item; when the decision is
\* asked for, the body has not reached the attachment selection.
C3_SkipSemantics ==
  /\ [][obs'.skips # obs.skips =>
          /\ pathExists(fs, existingTarget)
          /\ fs' = fs
          /\ result' = [result EXCEPT !.skipped = @ + 1]
          /\ obs'.selections = obs.selections
          /\ obs'.copies = obs.copies
          /\ obs'.writes = obs.writes
          /\ pc' = "loop"
          /\ idx' = idx + 1]_vars
  /\ [](pc = "resolveConflict" =>
          pdfAttachments = << >> /\ selectedPdfs = << >> /\ copiedPdfNames = << >>)

\* an item whose folder holds a copied PDF has been skipped and the next item
\* of the batch is due
C3_Witness ==
  /\ pc = "loop"
  /\ idx <= batchLen
  /\ obs.skips = 1
  /\ result.skipped = 1
  /\ result.exported = 1
  /\ \E p \in DOMAIN fs : Len(p) = 2 /\ fs[p] # Dir /\ fs[p].data[1] = "copy"

\* C4. Overwrite semantics: the step in which the decision is overwrite finds
\* the target existing and changes neither the destination nor the result;
\* the removal comes before anything of the item is selected, copied or
\* written; a removal that does not raise adds nothing, changes no entry
\* it keeps, and removes exactly the item folder with all below it (folder
\* layouts) or exactly the markdown file and the regular files of the output
\* root whose names start with the flat prefix (flat layout); the item then
\* goes on to the creation of its directory.
C4_OverwriteSemantics ==
  /\ [][obs'.overwrites # obs.overwrites =>
          /\ pathExists(fs, existingTarget)
          /\ pc' = "removeExistingTarget"
          /\ fs' = fs
          /\ result' = result
          /\ item' = item]_vars
  /\ [](pc = "removeExistingTarget" =>
          /\ selectedPdfs = << >>
          /\ copiedPdfNames = << >>
          /\ obs.itemWarnings = 0)
  /\ [][pc = "removeExistingTarget" /\ obs'.raised = obs.raised =>
          /\ pc' = "mkdirItem"
          /\ item' = item
          /\ outputPaths' = outputPaths
          /\ \A q \in DOMAIN fs' : q \in DOMAIN fs /\ fs'[q] = fs[q]
          /\ DOMAIN fs \ DOMAIN fs' =
               IF layoutMode = "flat"
               THEN {q \in DOMAIN fs :
                       \/ q = outputPaths.markdownPath
                       \/ /\ Len(q) = 1
                          /\ fs[q] # Dir
                          /\ startsWith(q[1], outputPaths.flatPrefix)}
               ELSE {q \in DOMAIN fs : isPrefix(outputPaths.itemFolder, q)}]_vars

\* in flat layout the target of the first item has been removed for an
\* overwrite: the prefixed file of the user is gone, the prefixed directory
\* and the other file of the user are still there
C4_Witness ==
  /\ pc = "mkdirItem"
  /\ layoutMode = "flat"
  /\ obs.overwrites = 1
  /\ outputPaths.markdownPath \notin DOMAIN fs
  /\ << <<"K","1","-","A","-","b","_","_","x",".","t","x","t">> >> \notin DOMAIN fs
  /\ << <<"K","1","-","A","-","b","_","_","d">> >> \in DOMAIN fs
  /\ << <<"z",".","t","x","t">> >> \in DOMAIN fs

\* one step of growth of an ExportResult
grows(r, r2) ==
  \/ r2 = [r EXCEPT !.exported = @ + 1]
  \/ r2 = [r EXCEPT !.skipped = @ + 1]
  \/ r2 = [r EXCEPT !.failed = @ + 1]
  \/ (~r.cancelled /\ r2 = [r EXCEPT !.cancelled = TRUE])
  \/ /\ Len(r2.warnings) = Len(r.warnings) + 1
     /\ r2 = [r EXCEPT !.warnings = Append(@, r2.warnings[Len(r2.warnings)])]

processed(r) == r.exported + r.skipped + r.failed

\* C5. Export result accounting: the result is created once, when the call
\* has made the output root, and then only grows, a step at a time: one
\* counter by one, cancelled from false to true, or one warning appended;
\* the loop moves to the next item exactly when one counter has grown by one,
\* so that the counters always add up to the number of items left behind;
\* at return they add up to the number of items when the run was not
\* cancelled and to the number of items before the cancelling item when it was.
C5_ResultAccounting ==
  /\ [][\/ result' = result
         \/ (result = undefined /\ pc = "mkdirRoot" /\ result' = newResult)
         \/ (result # undefined /\ result' # undefined /\ grows(result, result'))]_vars
  /\ [][idx' # idx /\ idx >= 1 =>
          idx' = idx + 1 /\ processed(result') = processed(result) + 1]_vars
  /\ [](result # undefined => processed(result) = idx - 1)
  /\ [](pc = "done" =>
          processed(result) = IF result.cancelled THEN obs.loads - 1 ELSE batchLen)

\* a run of three items has returned with one exported, one skipped and one
\* failed, and a warning
C5_Witness ==
  /\ pc = "done"
  /\ batchLen = 3
  /\ result.exported = 1
  /\ result.skipped = 1
  /\ result.failed = 1
  /\ ~result.cancelled
  /\ Len(result.warnings) > 0

\* C6. A call of exportItems always ends by returning its result: no failure
\* of a directory or file operation reaches the caller.
C6_NoFailureReachesCaller == pc # "thrown"

\* the creation of the output root has failed and the call has ended without
\* a result
C6_Witness ==
  /\ pc = "thrown"
  /\ result = undefined
  /\ faults = 1

\* the attachment the copy loop is at, and whether its source can be copied
attachmentAtHand == attachmentOf(selectedPdfs[attIdx])

unusableSource(attachment) ==
  \/ attachment.path = NULL
  \/ resolveAttachmentSourcePath(attachment) = NULL
  \/ resolveAttachmentSourcePath(attachment) \notin sourceFiles

\* C7. Attachment-level problems never fail the item: the copy loop appends a
\* warning exactly for a selected PDF whose path has an unsupported shape or
\* whose source file does not exist, and then exactly one; that step copies
\* and records nothing, leaves the destination and the counters as they
\* were and goes on with the item.  When the document is due, every selected
\* PDF has been either copied or warned about, and a write that does not
\* itself fail puts the document in place and counts the item as exported,
\* whatever the warnings and also when no PDF was selected.
C7_AttachmentProblemsAreWarnings ==
  /\ [][pc = "copyLoop" =>
          IF unusableSource(attachmentAtHand)
          THEN /\ result' = [result EXCEPT !.warnings = Append(@, result'.warnings[Len(@) + 1])]
               /\ Len(result'.warnings) = Len(result.warnings) + 1
               /\ obs'.itemWarnings = obs.itemWarnings + 1
               /\ obs'.raised = obs.raised
               /\ obs'.copies = obs.copies
               /\ fs' = fs
               /\ copiedPdfNames' = copiedPdfNames
               /\ item' = item
               /\ attIdx' = attIdx + 1
               /\ pc' = IF attIdx < Len(selectedPdfs) THEN "copyLoop" ELSE "write"
          ELSE /\ result' = result
               /\ pc' = "makeUniqueFilePath"]_vars
  /\ [][result # undefined /\ result'.warnings # result.warnings => pc = "copyLoop"]_vars
  /\ [](pc = "write" => obs.itemWarnings + Len(copiedPdfNames) = Len(selectedPdfs))
  /\ [][pc = "write" /\ obs'.raised = obs.raised =>
          /\ result' = [result EXCEPT !.exported = @ + 1]
          /\ pathExists(fs', outputPaths.markdownPath)
          /\ fs'[outputPaths.markdownPath].data[1] = "markdown"]_vars

\* an item with two selected PDFs, one without a usable path and one copied,
\* has been exported with one warning and nothing has failed
C7_Witness ==
  /\ pc = "loop"
  /\ result.exported = 1
  /\ result.failed = 0
  /\ Len(result.warnings) = 1
  /\ obs.itemWarnings = 1
  /\ obs.copies = 1
  /\ obs.writes = 1

\* the positions of the attachments of the item that are flagged isPdf
pdfPositions == {k \in 1..Len(item.attachments) : item.attachments[k].isPdf}

\* C8. Attachment selection: the selection collaborator is asked only for an
\* item in flight with more than one attachment flagged isPdf, and once; an
\* item that has its directory is prompted for exactly when it has more
\* than one such attachment, the candidates being those attachments in
\* order, and otherwise all of them are selected without a prompt; an
\* attachment that is not flagged isPdf is never a candidate, never selected
\* and never copied.
C8_AttachmentSelection ==
  /\ [][obs'.selections # obs.selections =>
          /\ pc = "selectPdfAttachments"
          /\ item # undefined
          /\ Cardinality(pdfPositions) > 1
          /\ obs'.selections = obs.selections + 1]_vars
  /\ [][pc = "mkdirItem" /\ obs'.raised = obs.raised =>
          /\ Len(pdfAttachments') = Cardinality(pdfPositions)
          /\ \A k \in 1..Len(pdfAttachments') :
               /\ pdfAttachments'[k].isPdf
               /\ \E j \in pdfPositions :
                    /\ item.attachments[j] = pdfAttachments'[k]
                    /\ Cardinality({i \in pdfPositions : i < j}) = k - 1
          /\ IF Cardinality(pdfPositions) > 1
             THEN pc' = "selectPdfAttachments"
             ELSE /\ pc' \in {"copyLoop", "write"}
                  /\ selectedPdfs' = [k \in 1..Len(pdfAttachments') |-> pdfAttachments'[k].itemId]
                  /\ obs' = obs]_vars
  /\ [](pc = "selectPdfAttachments" => Cardinality(pdfPositions) > 1)
  /\ [](item # undefined =>
          \A k \in 1..Len(selectedPdfs) : attachmentOf(selectedPdfs[k]).isPdf)
  /\ [][obs'.copies # obs.copies => attachmentAtHand.isPdf]_vars

\* the collaborator is asked about an item that has more attachments than
\* PDF attachments
C8_Witness ==
  /\ pc = "selectPdfAttachments"
  /\ Len(pdfAttachments) = 3
  /\ Len(item.attachments) = 4
  /\ obs.selections = 0

\* s2 holds the elements of s at the positions in keep, in the order of s
isFiltered(s, s2, keep) ==
  \E at \in [1..Len(s2) -> 1..Len(s)] :
    /\ \A i \in 1..Len(s2) : s2[i] = s[at[i]] /\ at[i] \in keep
    /\ \A i, j \in 1..Len(s2) : i < j => at[i] < at[j]
    /\ \A k \in keep : \E i \in 1..Len(s2) : at[i] = k

withoutMarkdown(note) ==
  [itemId |-> note.itemId, parentItemId |-> note.parentItemId, noteHtml |-> note.noteHtml]

\* C9. Content filtering by selection: when the document is rendered, the
\* highlights passed are the annotations of the item whose parent is a
\* selected PDF attachment, and the notes passed are the notes of the item
\* whose parent is the item or a selected attachment, both in the order of
\* the aggregate.
C9_ContentFilteredBySelection ==
  pc = "write" =>
    /\ isFiltered(item.annotations, markdownPayload.highlights,
                  {i \in 1..Len(item.annotations) :
                     \E k \in 1..Len(selectedPdfs) :
                       item.annotations[i].parentItemId = selectedPdfs[k]})
    /\ isFiltered(item.notes,
                  [k \in 1..Len(markdownPayload.notes) |-> withoutMarkdown(markdownPayload.notes[k])],
                  {i \in 1..Len(item.notes) :
                     \/ item.notes[i].parentItemId = item.itemId
                     \/ \E k \in 1..Len(selectedPdfs) :
                          item.notes[i].parentItemId = selectedPdfs[k]})

\* the document of an item is due of which one PDF out of three is selected:
\* two of its four highlights and two of its four notes are passed
C9_Witness ==
  /\ pc = "write"
  /\ Len(pdfAttachments) = 3
  /\ Len(selectedPdfs) = 1
  /\ Len(item.annotations) = 4
  /\ Len(markdownPayload.highlights) = 2
  /\ Len(item.notes) = 4
  /\ Len(markdownPayload.notes) = 2

doc_pdf == << <<"d","o","c",".","p","d","f">> >>

doc_2_pdf == << <<"d","o","c","-","2",".","p","d","f">> >>

doc_3_pdf == << <<"d","o","c","-","3",".","p","d","f">> >>

\* <name>-n<ext> beside target, the extension being what follows the last
\* dot of the base name unless that dot is its first character
numbered(target, n) ==
  LET base == target[Len(target)]
      dots == {i \in 2..Len(base) : base[i] = "."}
      cut  == IF dots = {} THEN Len(base) + 1 ELSE CHOOSE i \in dots : \A j \in dots : j <= i
  IN SubSeq(target, 1, Len(target) - 1)
       \o <<SubSeq(base, 1, cut - 1) \o <<"-">> \o decimal(n) \o SubSeq(base, cut, Len(base))>>

\* C10. makeUniqueFilePath: when the call has returned, the path it returned
\* does not exist; it is the target when the target does not exist, and
\* otherwise <name>-n<ext> beside the target for the smallest n >= 2 for
\* which that path does not exist, so doc-2.pdf when only doc.pdf is taken
\* and doc-3.pdf when doc.pdf and doc-2.pdf are; and every call returns.
C10_MakeUniqueFilePath ==
  /\ [](pc = "copyFile" =>
          /\ ~pathExists(fs, targetPath)
          /\ IF ~pathExists(fs, desiredTargetPath)
             THEN targetPath = desiredTargetPath
             ELSE \E n \in 2..(Cardinality(DOMAIN fs) + 2) :
                    /\ targetPath = numbered(desiredTargetPath, n)
                    /\ \A m \in 2..(n - 1) : pathExists(fs, numbered(desiredTargetPath, m))
          /\ (desiredTargetPath = doc_pdf /\ doc_pdf \in DOMAIN fs /\ doc_2_pdf \notin DOMAIN fs
                => targetPath = doc_2_pdf)
          /\ (desiredTargetPath = doc_pdf /\ {doc_pdf, doc_2_pdf} \subseteq DOMAIN fs
                /\ doc_3_pdf \notin DOMAIN fs
                => targetPath = doc_3_pdf))
  /\ <>(pc = "copyFile")

\* doc.pdf and doc-2.pdf are taken and the call has returned doc-3.pdf
C10_Witness ==
  /\ pc = "copyFile"
  /\ desiredTargetPath = doc_pdf
  /\ {doc_pdf, doc_2_pdf} \subseteq DOMAIN fs
  /\ targetPath = doc_3_pdf

(***************************************************************************)
(* Properties of the naming engine.                                        *)
(***************************************************************************)
str_A_Study == <<"A","-","S","t","u","d","y","-","L","a","n","g","u","a","g","e","-",
                 "T","h","o","u","g","h","t">>

\* C11. For every input string, the output of sanitizeSegment contains only
\* letters, digits, dots, underscores and hyphens, has no run of two or more
\* hyphens, does not begin or end with a hyphen or a dot, and is at most
\* MAX_SLUG_LENGTH characters long.
C11_SanitizeSegmentOutput ==
  (call.op = "sanitizeSegment" /\ returned # undefined) =>
    LET out == returned.value
    IN /\ \A i \in 1..Len(out) : out[i] \in SegmentChars
       /\ ~includes(out, <<"-", "-">>)
       /\ out # << >> => out[1] \notin {"-", "."} /\ out[Len(out)] \notin {"-", "."}
       /\ Len(out) <= MAX_SLUG_LENGTH

\* a call whose input is longer than the cap after cleaning returns the
\* first MAX_SLUG_LENGTH characters, and they end with a hyphen
C11_Witness ==
  /\ call.op = "sanitizeSegment"
  /\ call.input = padding \o <<"a", "-", "a">>
  /\ returned # undefined
  /\ returned.value = padding \o <<"a", "-">>

str_untitled == <<"u","n","t","i","t","l","e","d">>

\* C12. For every item, buildItemSlug returns the key, a hyphen, then the
\* sanitized title, or "untitled" when the sanitized title is empty; the slug
\* starts with the key and a hyphen and is never longer than
\* MAX_SLUG_LENGTH plus the length of the key plus one.
C12_BuildItemSlug ==
  (call.op = "buildItemSlug" /\ returned # undefined) =>
    LET key       == call.item.key
        sanitized == sanitizeSegment(call.item.title)
        slug      == returned.value
    IN /\ slug = key \o <<"-">> \o (IF sanitized = << >> THEN str_untitled ELSE sanitized)
       /\ startsWith(slug, key \o <<"-">>)
       /\ Len(slug) <= MAX_SLUG_LENGTH + Len(key) + 1
       /\ call.item = [key |-> str_ABCD1234, title |-> str_My_Title_Here]
            => slug = str_ABCD1234 \o <<"-","M","y","-","T","i","t","l","e","-","H","e","r","e">>

\* a slug whose title part fills the cap: it is as long as the bound allows
C12_Witness ==
  /\ call.op = "buildItemSlug"
  /\ call.item.key = str_ABCD1234
  /\ returned # undefined
  /\ Len(returned.value) = MAX_SLUG_LENGTH + Len(str_ABCD1234) + 1

str_item_md == <<"i","t","e","m",".","m","d">>

str_unknown_year == <<"u","n","k","n","o","w","n","-","y","e","a","r">>

\* the folder of the year: the sanitized year, "unknown-year" when the year
\* is absent or sanitizes to nothing
yearFolderOf(year) ==
  IF year = NULL \/ year = << >> \/ sanitizeSegment(year) = << >>
  THEN str_unknown_year
  ELSE sanitizeSegment(year)

\* the folder of an item in the two layouts that have one
itemFolderOf(mode, slug, year) ==
  IF mode = "year-item" THEN outputRoot \o <<yearFolderOf(year), slug>> ELSE outputRoot \o <<slug>>

summaryQueries ==
  {"searchItems", "getCollectionItemSummaries", "getDirectCollectionItemSummaries"}

\* a summary query has returned
summariesReturned == opened # undefined /\ call.op \in summaryQueries /\ returned # undefined

\* the attachments of an item
attachmentIdsOf(db, itemId) ==
  {ia.itemID : ia \in {a \in db.itemAttachments : a.parentItemID = itemId}}

\* C14. For every top-level item in a summary result, noteCount is the number
\* of distinct notes whose parent is the item itself or one of the item's
\* attachments; no note is counted twice.
C14_NoteCount ==
  summariesReturned =>
    \A k \in 1..Len(returned.value) :
      LET summary == returned.value[k]
          parents == {summary.itemId} \cup attachmentIdsOf(opened.db, summary.itemId)
      IN summary.noteCount
           = Cardinality({n.itemID : n \in {m \in opened.db.itemNotes :
                                              m.parentItemID \in parents}})

\* the search of the test: one item with one PDF, a note on the item and a
\* note on its attachment
C14_Witness ==
  /\ summariesReturned
  /\ opened.db = testDb
  /\ call.op = "searchItems"
  /\ call.searchText = str_distributed
  /\ Len(returned.value) = 1
  /\ returned.value[1].itemId = 1
  /\ returned.value[1].hasPdf
  /\ returned.value[1].pdfCount = 1
  /\ returned.value[1].noteCount = 2

\* the collection is root or lies below it: the chain of its parents reaches root
RECURSIVE isWithin(_, _, _)
isWithin(db, collectionId, root) ==
  \/ collectionId = root
  \/ \E c \in db.collections :
       /\ c.collectionID = collectionId
       /\ c.parentCollectionID # nullId
       /\ isWithin(db, c.parentCollectionID, root)

\* the top-level items that are members of root or of a collection below it
itemsWithin(db, root) ==
  {i.itemID : i \in {t \in db.items :
                       /\ t.typeName \notin {"attachment", "note", "annotation"}
                       /\ \E m \in db.collectionItems :
                            m.itemID = t.itemID /\ isWithin(db, m.collectionID, root)}}

itemIdsOf(summaries) == {summaries[k].itemId : k \in 1..Len(summaries)}

\* C15. getCollectionItemSummaries(root) returns the top-level items that are
\* members of root or of any transitive descendant of root, each item once
\* even when it belongs to several of those collections: all of them when
\* the limit allows, and limit of them otherwise.
C15_RecursiveCollectionMembership ==
  (opened # undefined /\ call.op = "getCollectionItemSummaries" /\ returned # undefined) =>
    LET expected == itemsWithin(opened.db, call.collectionId)
        rows     == returned.value
    IN /\ \A i, j \in 1..Len(rows) : i # j => rows[i].itemId # rows[j].itemId
       /\ itemIdsOf(rows) \subseteq expected
       /\ Len(rows) = Min(call.limit, Cardinality(expected))

\* item 1 is in the result for a collection it is not a direct member of,
\* once, though two of the collections below hold it
C15_Witness ==
  /\ opened # undefined
  /\ call.op = "getCollectionItemSummaries"
  /\ returned # undefined
  /\ 1 \in itemIdsOf(returned.value)
  /\ ~\E m \in opened.db.collectionItems : m.itemID = 1 /\ m.collectionID = call.collectionId
  /\ Cardinality({m \in opened.db.collectionItems :
                    m.itemID = 1 /\ isWithin(opened.db, m.collectionID, call.collectionId)}) = 2

\* text contains part, the case of letters ignored
containsIgnoringCase(text, part) ==
  text # NULL /\ includes(toLowerCase(text), toLowerCase(part))

\* the items that are no attachment, note or annotation and have the query
\* in their title, creator text, date, DOI or tag text
itemsMatching(db, query) ==
  {i.itemID : i \in {t \in db.items :
       /\ t.typeName \notin {"attachment", "note", "annotation"}
       /\ \/ query = << >>
          \/ containsIgnoringCase(fieldValue(db, t.itemID, "title"), query)
          \/ containsIgnoringCase(creatorsTextOf(db, t.itemID), query)
          \/ containsIgnoringCase(fieldValue(db, t.itemID, "date"), query)
          \/ containsIgnoringCase(fieldValue(db, t.itemID, "DOI"), query)
          \/ containsIgnoringCase(tagsTextOf(db, t.itemID), query)}}

\* C16. searchItems(query, limit) returns exactly the items that are not of
\* type attachment, note or annotation and whose title, creator text, date,
\* DOI or tag text contains the trimmed query case-insensitively (the empty
\* query matches every such item), ordered by last-modified timestamp
\* descending and truncated to at most limit results.
C16_SearchItems ==
  (opened # undefined /\ call.op = "searchItems" /\ returned # undefined) =>
    LET expected == itemsMatching(opened.db, trim(call.searchText))
        rows     == returned.value
    IN /\ \A i, j \in 1..Len(rows) : i # j => rows[i].itemId # rows[j].itemId
       /\ itemIdsOf(rows) \subseteq expected
       /\ Len(rows) = Min(call.limit, Cardinality(expected))
       /\ inDateModifiedOrder(rows)

\* the search for "a_b" has returned item 1, no text of which contains an
\* underscore: its title is "aXb"
C16_Witness ==
  /\ opened # undefined
  /\ call.op = "searchItems"
  /\ call.searchText = <<"a", "_", "b">>
  /\ returned # undefined
  /\ 1 \in itemIdsOf(returned.value)
  /\ fieldValue(opened.db, 1, "title") = <<"a", "X", "b">>

\* the attachments of an item: the rows of itemAttachments below it
attachmentsBelow(db, itemId) ==
  {ia.itemID : ia \in {a \in db.itemAttachments : a.parentItemID = itemId}}

\* the notes below an item or below one of its attachments
notesBelow(db, itemId) ==
  {n \in db.itemNotes :
     n.parentItemID \in {itemId} \cup attachmentsBelow(db, itemId)}

\* the annotations below an attachment of an item
annotationsBelow(db, itemId) ==
  {a \in db.itemAnnotations : a.parentItemID \in attachmentsBelow(db, itemId)}

\* an aggregate was asked for and returned
aggregateReturned ==
  /\ call.op = "getItemExportData"
  /\ returned # undefined
  /\ "value" \in DOMAIN returned

\* C17. Aggregate children: the notes getItemExportData returns are exactly
\* the notes whose parent is the item or one of its attachments, each once,
\* the notes of the item first and the notes of the attachments after, each
\* group in ascending note id; the annotations are exactly the annotations
\* whose parent is an attachment of the item, each once. For an item without
\* attachments the call returns the notes of the item alone and no
\* annotation, and does not throw. On the database of the test, item 1 has
\* one attachment, two notes and one annotation.
C17_AggregateChildren ==
  call.op = "getItemExportData" /\ itemExists(opened.db, call.itemId) =>
    /\ aggregateReturned
    /\ LET db          == opened.db
           itemId      == call.itemId
           notes       == returned.value.notes
           annotations == returned.value.annotations
       IN /\ {notes[i].itemId : i \in 1..Len(notes)}
                = {n.itemID : n \in notesBelow(db, itemId)}
          /\ Len(notes) = Cardinality(notesBelow(db, itemId))
          /\ \A i \in 1..Len(notes) :
                notes[i].parentItemId
                  = (CHOOSE n \in db.itemNotes : n.itemID = notes[i].itemId).parentItemID
          /\ \A i, j \in 1..Len(notes) :
                i < j =>
                  \/ notes[i].parentItemId = itemId /\ notes[j].parentItemId # itemId
                  \/ /\ (notes[i].parentItemId = itemId) = (notes[j].parentItemId = itemId)
                     /\ notes[i].itemId < notes[j].itemId
          /\ {annotations[i].itemId : i \in 1..Len(annotations)}
                = {a.itemID : a \in annotationsBelow(db, itemId)}
          /\ Len(annotations) = Cardinality(annotationsBelow(db, itemId))
          /\ attachmentsBelow(db, itemId) = {} =>
                /\ Len(returned.value.attachments) = 0
                /\ \A i \in 1..Len(notes) : notes[i].parentItemId = itemId
                /\ annotations = << >>
          /\ db = testDb /\ itemId = 1 =>
                /\ Len(returned.value.attachments) = 1
                /\ returned.value.attachments[1].isPdf
                /\ Len(notes) = 2
                /\ Len(annotations) = 1

\* item 1 has the attachment 11, its own note 22 and the older note 21 of
\* the attachment: the note of the item comes first
C17_Witness ==
  /\ aggregateReturned
  /\ call.itemId = 1
  /\ Len(returned.value.notes) = 2
  /\ returned.value.notes[1].itemId = 22
  /\ returned.value.notes[1].parentItemId = 1
  /\ returned.value.notes[2].itemId = 21
  /\ returned.value.notes[2].parentItemId = 11
  /\ Len(returned.value.annotations) >= 1

(***************************************************************************)
(* Calls of buildMarkdown (test/markdown.test.ts): lists of at most        *)
(* MaxBlocks highlights and notes, with and without their optional parts.  *)
(***************************************************************************)
str_Important_excerpt == <<"I","m","p","o","r","t","a","n","t"," ","e","x","c","e","r","p","t">>

str_Note_content == <<"N","o","t","e"," ","c","o","n","t","e","n","t">>

highlightInputs ==
  { [itemId |-> 100, parentItemId |-> 10, text |-> <<" ">> \o str_Important_excerpt,
     pageLabel |-> <<"4">>, color |-> <<"#","f","f","e","e","0","0">>],
    [itemId |-> 101, parentItemId |-> 10],
    [itemId |-> 102, parentItemId |-> 10, text |-> <<" ">>, comment |-> << >>],
    [itemId |-> 103, parentItemId |-> 10, text |-> <<"q">>, comment |-> <<"c"," ">>] }

noteInputs ==
  { [itemId |-> 200, parentItemId |-> 1, title |-> <<"M","y"," ","n","o","t","e">>,
     noteHtml |-> <<"<","p",">","N","o","t","e","<","/","p",">">>, noteMarkdown |-> str_Note_content],
    [itemId |-> 201, parentItemId |-> 1, noteHtml |-> << >>],
    [itemId |-> 202, parentItemId |-> 1, noteHtml |-> <<" ">>, noteMarkdown |-> <<" ","\n">>],
    [itemId |-> 203, parentItemId |-> 1, title |-> <<" ">>, noteHtml |-> <<"a">>,
     noteMarkdown |-> <<"a","\n","\n","b","\n">>] }

lists(elements, n) == UNION {[1..k -> elements] : k \in 0..n}

buildMarkdownCalls(n) ==
  {[op |-> "buildMarkdown",
    payload |-> [item |-> [itemId |-> 1, key |-> str_ABCD1234, title |-> title, year |-> NULL],
                 selectedAttachments |-> << >>,
                 exportedAttachmentFilenames |-> << >>,
                 highlights |-> highlights,
                 notes |-> notes]] :
     title \in {<< >>, str_A_Study},
     highlights \in lists(highlightInputs, n),
     notes \in lists(noteInputs, n)}

InitMarkdown ==
  /\ call \in buildMarkdownCalls(MaxBlocks)
  /\ returned = undefined
  /\ fs = noTree
  /\ notExporting
  /\ notPicking
  /\ exportDatabase
  /\ notMirroring

BuildMarkdown ==
  /\ call.op = "buildMarkdown"
  /\ returned = undefined
  /\ returned' = [value |-> buildMarkdown(call.payload)]
  /\ UNCHANGED <<call, files, opened, opens, mirror, picker, exporting>>

NextMarkdown == BuildMarkdown

SpecMarkdown == InitMarkdown /\ [][NextMarkdown]_vars

\* the lines of a text
splitLines(text) ==
  LET ends     == {i \in 1..Len(text) : text[i] = "\n"} \cup {Len(text) + 1}
      endOf(k) == CHOOSE e \in ends : Cardinality({x \in ends : x < e}) = k - 1
  IN [k \in 1..Cardinality(ends) |->
        SubSeq(text, (IF k = 1 THEN 1 ELSE endOf(k - 1) + 1), endOf(k) - 1)]

\* the lines below the line that reads heading, down to the line that reads
\* nextHeading (or to the end when no line does)
sectionBelow(docLines, heading, nextHeading) ==
  LET at      == CHOOSE i \in 1..Len(docLines) : docLines[i] = heading
      nexts   == {i \in (at + 1)..Len(docLines) : docLines[i] = nextHeading}
      through == IF nexts = {} THEN Len(docLines)
                 ELSE (CHOOSE i \in nexts : \A j \in nexts : i <= j) - 1
  IN SubSeq(docLines, at + 1, through)

\* the lines of a section that begin a block
blockHeadings(section, prefix) == SelectSeq(section, LAMBDA l : startsWith(l, prefix))

\* the lines of the k-th block of a section, its heading left out
blockOf(section, prefix, k) ==
  LET starts  == {i \in 1..Len(section) : startsWith(section[i], prefix)}
      nth(n)  == CHOOSE i \in starts : Cardinality({j \in starts : j < i}) = n - 1
      through == IF k < Cardinality(starts) THEN nth(k + 1) - 1 ELSE Len(section)
  IN SubSeq(section, nth(k) + 1, through)

\* buildMarkdown was called and returned
documentReturned ==
  /\ call.op = "buildMarkdown"
  /\ returned # undefined

highlightsSection ==
  sectionBelow(splitLines(returned.value.body), str_HighlightsSection, str_NotesSection)

notesSection ==
  sectionBelow(splitLines(returned.value.body), str_NotesSection, NULL)

\* C18. Rendered sections: the document of buildMarkdown reads "None" under
\* "## Highlights" when the list of highlights is empty and under "## Notes"
\* when the list of notes is empty; otherwise each section holds one block
\* for each element of its list, headed "### Highlight k" or "### Note k"
\* for k = 1..n in this order, and the k-th block shows the k-th element of
\* the list (the page, colour, text and comment of the highlight that has
\* them; the Markdown of the note, or "Empty note content."): no block is
\* dropped and none is there twice.
C18_RenderedSections ==
  documentReturned =>
    LET highlights == call.payload.highlights
        notes      == call.payload.notes
        text       == returned.value.body
        ofHighlights == highlightsSection
        ofNotes      == notesSection
    IN /\ Len(highlights) = 0 =>
            /\ includes(text, str_HighlightsSection \o <<"\n","\n">> \o str_None)
            /\ ofHighlights = <<<< >>, str_None, << >>>>
       /\ Len(notes) = 0 =>
            /\ includes(text, str_NotesSection \o <<"\n","\n">> \o str_None)
            /\ ofNotes = <<<< >>, str_None, << >>>>
       /\ Len(highlights) > 0 =>
            /\ blockHeadings(ofHighlights, str_HighlightHeading)
                 = [k \in 1..Len(highlights) |-> str_HighlightHeading \o decimal(k)]
            /\ str_None \notin {ofHighlights[i] : i \in 1..Len(ofHighlights)}
            /\ \A k \in 1..Len(highlights) :
                 LET block == blockOf(ofHighlights, str_HighlightHeading, k)
                     shown == SelectSeq(block, LAMBDA l : l # << >>)
                     h     == highlights[k]
                     has(name) == name \in DOMAIN h /\ trim(h[name]) # << >>
                 IN shown =
                      (IF has("pageLabel") THEN <<str_Page \o h.pageLabel>> ELSE << >>)
                        \o (IF has("color") THEN <<str_Color \o h.color>> ELSE << >>)
                        \o (IF has("text") THEN <<str_Quote \o trim(h.text)>> ELSE << >>)
                        \o (IF has("comment") THEN <<str_Comment \o trim(h.comment)>>
                            ELSE << >>)
       /\ Len(notes) > 0 =>
            /\ blockHeadings(ofNotes, str_NoteHeading)
                 = [k \in 1..Len(notes) |-> str_NoteHeading \o decimal(k)]
            /\ str_None \notin {ofNotes[i] : i \in 1..Len(ofNotes)}
            /\ \A k \in 1..Len(notes) :
                 LET block == trim(joinLines(blockOf(ofNotes, str_NoteHeading, k)))
                     n     == notes[k]
                     shown == IF "noteMarkdown" \in DOMAIN n /\ trim(n.noteMarkdown) # << >>
                              THEN trim(n.noteMarkdown) ELSE str_EmptyNote
                 IN IF "title" \in DOMAIN n /\ trim(n.title) # << >>
                    THEN block = str_Title \o trim(n.title) \o <<"\n","\n">> \o shown
                    ELSE block = shown

\* two highlights, the one without text first, and two notes, the one without
\* Markdown first
C18_Witness ==
  /\ documentReturned
  /\ Len(call.payload.highlights) = 2
  /\ call.payload.highlights[1].itemId = 101
  /\ call.payload.highlights[2].itemId = 100
  /\ Len(call.payload.notes) = 2
  /\ call.payload.notes[1].itemId = 201
  /\ call.payload.notes[2].itemId = 200
  /\ blockOf(highlightsSection, str_HighlightHeading, 2)
       = <<str_Page \o <<"4">>, str_Color \o <<"#","f","f","e","e","0","0">>,
           str_Quote \o str_Important_excerpt, << >>>>
  /\ blockOf(notesSection, str_NoteHeading, 1) = <<str_EmptyNote, << >>>>

(***************************************************************************)
(* exportCollectionCommand in mirror-subcollections mode                   *)
(* (src/commands/exportCollection.ts), from the loop over the descendant   *)
(* collections on: the prompts have been answered, the selected collection *)
(* holds at least one item, itself or below.                               *)
(***************************************************************************)
\* the characters of the names in the order of their code units
CollationOrder ==
  <<" ","!","%","-",".","0","1","2","3","4","5","6","7","8","9",
    "A","B","C","D","E","F","G","H","I","J","K","L","M",
    "N","O","P","Q","R","S","T","U","V","W","X","Y","Z","_",
    "a","b","c","d","e","f","g","h","i","j","k","l","m",
    "n","o","p","q","r","s","t","u","v","w","x","y","z">>

collationRank(c) == CHOOSE i \in 1..Len(CollationOrder) : CollationOrder[i] = c

\* a sorts before b in SQLite's BINARY collation
binaryLess(a, b) ==
  \E k \in 1..(Min(Len(a), Len(b)) + 1) :
    /\ \A j \in 1..(k - 1) : a[j] = b[j]
    /\ \/ k = Len(a) + 1 /\ k <= Len(b)
       \/ /\ k <= Len(a)
          /\ k <= Len(b)
          /\ collationRank(a[k]) < collationRank(b[k])

\* the results getCollectionsForLibrary may return: ORDER BY collectionName,
\* collections of one name in any order
getCollectionsForLibrary(db, libraryId) ==
  LET rows == {c \in db.collections : c.libraryID = libraryId}
  IN {[i \in 1..Cardinality(rows) |->
         [collectionId       |-> q[i].collectionID,
          key                |-> q[i].key,
          libraryId          |-> q[i].libraryID,
          collectionName     |-> q[i].collectionName,
          parentCollectionId |-> q[i].parentCollectionID]] :
        q \in {o \in [1..Cardinality(rows) -> rows] :
                 /\ \A i, j \in 1..Cardinality(rows) : i # j => o[i] # o[j]
                 /\ \A i, j \in 1..Cardinality(rows) :
                      i < j => ~binaryLess(o[j].collectionName, o[i].collectionName)}}

\* collectionById.get(collectionId), for a collection that is there
collectionOf(collections, collectionId) ==
  collections[CHOOSE i \in 1..Len(collections) : collections[i].collectionId = collectionId]

RECURSIVE getCollectionPathSegments(_, _)
getCollectionPathSegments(collectionId, collections) ==
  IF collectionId = nullId
       \/ \A i \in 1..Len(collections) : collections[i].collectionId # collectionId
  THEN << >>
  ELSE LET node == collectionOf(collections, collectionId)
       IN getCollectionPathSegments(node.parentCollectionId, collections)
            \o <<node.collectionName>>

getRelativePathSegments(rootCollectionId, collectionId, collections) ==
  LET rootSegments == getCollectionPathSegments(rootCollectionId, collections)
      fullSegments == getCollectionPathSegments(collectionId, collections)
  IN sliceFrom(fullSegments, Len(rootSegments))

\* a loop that visits the root and its children and does not queue theirs
breadthFirstOfChildren(collections, queue, ordered) ==
  LET current == Head(queue)
      below   == SelectSeq(collections, LAMBDA c : c.parentCollectionId = current)
  IN Append(ordered, current) \o [i \in 1..Len(below) |-> below[i].collectionId]

\* the while loop of getDescendantCollectionIds
RECURSIVE breadthFirst(_, _, _)
breadthFirst(collections, queue, ordered) ==
  IF queue = << >> THEN ordered
  ELSE LET current  == Head(queue)
           below    == SelectSeq(collections, LAMBDA c : c.parentCollectionId = current)
           children == [i \in 1..Len(below) |-> below[i].collectionId]
       IN breadthFirst(collections, Tail(queue) \o children, Append(ordered, current))

getDescendantCollectionIds(rootCollectionId, collections) ==
  breadthFirst(collections, <<rootCollectionId>>, << >>)

str_collection == <<"c","o","l","l","e","c","t","i","o","n">>

\* path.join(outputRootPath, baseCollectionFolderName)
collectionOutputRootOf(collection) ==
  outputRoot \o <<orElse(sanitizeSegment(collection.collectionName), collection.key)>>

\* path.join(collectionOutputRoot, ...safeRelativeSegments)
targetFolderOf(rootCollectionId, collectionId, collections) ==
  LET relativeSegments == getRelativePathSegments(rootCollectionId, collectionId, collections)
  IN collectionOutputRootOf(collectionOf(collections, rootCollectionId))
       \o [i \in 1..Len(relativeSegments) |->
             orElse(sanitizeSegment(relativeSegments[i]), str_collection)]

\* the folder or file exportItems looks for before it exports an item
itemTargetOf(db, outputRootPath, mode, itemId) ==
  LET exportData == getItemExportData(db, itemId)
  IN outputRootPath
       \o existingTargetOf(resolveItemOutputPaths(mode, buildItemSlug(exportData),
                                                  exportData.year))

\* the ways exportItems may go on from itemSummaries[k]: at a target that
\* exists the user overwrites, skips or cancels; an item that is exported
\* leaves its target; an item may fail while faults are left
RECURSIVE exportItemsFrom(_, _, _, _, _)
exportItemsFrom(db, outputRootPath, mode, itemSummaries, so) ==
  IF so.k > Len(itemSummaries) THEN {so}
  ELSE LET target   == itemTargetOf(db, outputRootPath, mode, itemSummaries[so.k].itemId)
           next     == [so EXCEPT !.k = @ + 1]
           exported == exportItemsFrom(db, outputRootPath, mode, itemSummaries,
                         [next EXCEPT !.exported = @ + 1, !.disk = @ \cup {target}])
           failed   == IF so.faults < MaxFaults
                       THEN exportItemsFrom(db, outputRootPath, mode, itemSummaries,
                              [next EXCEPT !.failed = @ + 1, !.faults = @ + 1])
                       ELSE {}
           skipped  == exportItemsFrom(db, outputRootPath, mode, itemSummaries,
                         [next EXCEPT !.skipped = @ + 1])
           stopped  == {[so EXCEPT !.cancelled = TRUE]}
       IN IF target \in so.disk
          THEN exported \cup failed \cup skipped \cup stopped
          ELSE exported \cup failed

\* the ways runExport may end for a batch that is not empty: the result of
\* exportItems and the targets that exist after it, or a rejection when the
\* output root cannot be made
runExport(db, itemSummaries, mode, outputRootPathOverride, disk, faultsSoFar) ==
  {[thrown |-> FALSE, exported |-> o.exported, skipped |-> o.skipped, failed |-> o.failed,
    cancelled |-> o.cancelled, disk |-> o.disk, faults |-> o.faults] :
     o \in exportItemsFrom(db, outputRootPathOverride, mode, itemSummaries,
                           [k |-> 1, exported |-> 0, skipped |-> 0, failed |-> 0,
                            cancelled |-> FALSE, disk |-> disk, faults |-> faultsSoFar])}
    \cup (IF faultsSoFar < MaxFaults
          THEN {[thrown |-> TRUE, exported |-> 0, skipped |-> 0, failed |-> 0,
                 cancelled |-> FALSE, disk |-> disk, faults |-> faultsSoFar + 1]}
          ELSE {})

collectionNames == {<<"A">>, <<"A","!">>, <<"!">>}

\* the forest, the names of the collections but the first and the
\* collections of items 1 and 2 vary
mirrorStores(ids) ==
  {[emptyDb EXCEPT
      !.items = topLevelRows,
      !.collections =
         {[collectionID |-> c, key |-> <<"C">> \o decimal(c), libraryID |-> 1,
           collectionName |-> name[c], parentCollectionID |-> p[c]] : c \in ids},
      !.collectionItems =
         {[collectionID |-> c, itemID |-> 1] : c \in of1}
           \cup {[collectionID |-> c, itemID |-> 2] : c \in of2}] :
     p \in forests, name \in {n \in [ids -> collectionNames] : n[1] = <<"A">>},
     of1 \in SUBSET ids, of2 \in {{}, {MaxCollections}}}

\* the targets that exist before the command: none, or that of item 1 in the
\* folder of the selected collection, left by an earlier export
previousExport(db, selected, collections, previous) ==
  IF previous
  THEN {itemTargetOf(db, collectionOutputRootOf(collectionOf(collections, selected)),
                     "item-folder", 1)}
  ELSE {}

InitMirror ==
  /\ \E db \in mirrorStores(collectionIds), selected \in {1, 2}, previous \in BOOLEAN :
       \E collections \in getCollectionsForLibrary(db, 1) :
         /\ getCollectionItemSummaries(db, selected, DEFAULT_LIMIT) # {<< >>}
         /\ files = copyFile((sqlitePath :> db), sqlitePath, tempPath(1))
         /\ opened = [db |-> db, tempDbPath |-> tempPath(1)]
         /\ mirror = [pc            |-> "loop",
                      selected      |-> selected,
                      collections   |-> collections,
                      descendantIds |-> getDescendantCollectionIds(selected, collections),
                      pos           |-> 1,
                      totalExported |-> 0,
                      totalSkipped  |-> 0,
                      totalFailed   |-> 0,
                      cancelled     |-> FALSE,
                      existed       |-> previousExport(db, selected, collections, previous),
                      disk          |-> previousExport(db, selected, collections, previous),
                      faults        |-> 0,
                      runs          |-> << >>]
  /\ opens = 1
  /\ noCall
  /\ fs = noTree
  /\ notExporting
  /\ notPicking

\* one turn of the loop over descendantIds
MirrorCollection ==
  /\ mirror.pc = "loop"
  /\ mirror.pos <= Len(mirror.descendantIds)
  /\ LET collectionId == mirror.descendantIds[mirror.pos]
         targetFolder == targetFolderOf(mirror.selected, collectionId, mirror.collections)
     IN \E directItems \in getDirectCollectionItemSummaries(opened.db, collectionId,
                                                            DEFAULT_LIMIT) :
          IF Len(directItems) = 0
          THEN mirror' = [mirror EXCEPT !.pos = @ + 1]
          ELSE \E res \in runExport(opened.db, directItems, layoutMode, targetFolder,
                                    mirror.disk, mirror.faults) :
                 mirror' =
                   IF res.thrown
                   THEN [mirror EXCEPT !.pc = "rejected", !.faults = res.faults]
                   ELSE [mirror EXCEPT
                           !.totalExported = @ + res.exported,
                           !.totalSkipped  = @ + res.skipped,
                           !.totalFailed   = @ + res.failed,
                           !.cancelled     = res.cancelled,
                           !.pc            = IF res.cancelled THEN "summary" ELSE "loop",
                           !.pos           = IF res.cancelled THEN @ ELSE @ + 1,
                           !.disk          = res.disk,
                           !.faults        = res.faults,
                           !.runs          = Append(@, [collectionId |-> collectionId,
                                                        targetFolder |-> targetFolder,
                                                        itemIds      |-> itemIdsOf(directItems),
                                                        result       |-> res])]
  /\ UNCHANGED <<call, returned, files, opened, opens, picker, exporting>>

\* the final summary, and opened.cleanup() in the finally block
FinishMirror ==
  /\ \/ mirror.pc = "loop" /\ mirror.pos > Len(mirror.descendantIds)
     \/ mirror.pc \in {"summary", "rejected"}
  /\ mirror' = [mirror EXCEPT !.pc = IF @ = "rejected" THEN "thrown" ELSE "done"]
  /\ files' = rmForce(files, removedByCleanup(opened))
  /\ opened' = undefined
  /\ UNCHANGED <<call, returned, opens, picker, exporting>>

NextMirror == MirrorCollection \/ FinishMirror

SpecMirror == InitMirror /\ [][NextMirror]_vars

\* the sum of a sequence of numbers
RECURSIVE sumOf(_)
sumOf(numbers) == IF numbers = << >> THEN 0 ELSE Head(numbers) + sumOf(Tail(numbers))

\* the top-level items that are members of the collection itself
directMembers(db, collectionId) ==
  {i.itemID : i \in {t \in db.items :
                       /\ t.typeName \notin ChildTypes
                       /\ \E m \in db.collectionItems :
                            m.itemID = t.itemID /\ m.collectionID = collectionId}}

\* the collections at or below the selected one that hold items themselves
mirrored(db) ==
  {c.collectionID : c \in {d \in db.collections :
                             /\ isWithin(db, d.collectionID, mirror.selected)
                             /\ directMembers(db, d.collectionID) # {}}}

\* C19. Mirror sub-collections mode: each collection at or below the selected
\* one that holds items itself is exported by one runExport of its own, with
\* exactly its direct items, into a folder of its own (no two collections
\* share a folder), in the order of descendantIds; an item of two such
\* collections is in both exports, and where nothing existed before and
\* nothing fails each export exports all its items, so that the item is
\* exported once per collection; the totals are the sums of the results,
\* which count each item of an export that was not cancelled once; after a
\* cancelled result no further collection is exported.
C19_MirrorSubcollections ==
  mirror.pc \in {"loop", "summary", "done"} =>
    LET db   == files[sqlitePath]
        runs == mirror.runs
        n    == Len(runs)
    IN /\ \A k \in 1..n :
            /\ runs[k].collectionId \in mirrored(db)
            /\ runs[k].itemIds = directMembers(db, runs[k].collectionId)
            /\ runs[k].result.cancelled
                 \/ runs[k].result.exported + runs[k].result.skipped + runs[k].result.failed
                      = Cardinality(runs[k].itemIds)
       /\ \A k, l \in 1..n :
            k < l =>
              /\ runs[k].collectionId # runs[l].collectionId
              /\ runs[k].targetFolder # runs[l].targetFolder
              /\ \E i, j \in 1..Len(mirror.descendantIds) :
                   /\ i < j
                   /\ mirror.descendantIds[i] = runs[k].collectionId
                   /\ mirror.descendantIds[j] = runs[l].collectionId
              /\ ~runs[k].result.cancelled
       /\ mirror.totalExported = sumOf([k \in 1..n |-> runs[k].result.exported])
       /\ mirror.totalSkipped = sumOf([k \in 1..n |-> runs[k].result.skipped])
       /\ mirror.totalFailed = sumOf([k \in 1..n |-> runs[k].result.failed])
       /\ mirror.cancelled = (n > 0 /\ runs[n].result.cancelled)
       /\ mirror.existed = {} /\ mirror.faults = 0 =>
            /\ ~mirror.cancelled
            /\ mirror.totalSkipped = 0
            /\ mirror.totalExported = sumOf([k \in 1..n |-> Cardinality(runs[k].itemIds)])
       /\ mirror.pc = "done" /\ ~mirror.cancelled =>
            {runs[k].collectionId : k \in 1..n} = mirrored(db)

\* item 1 is a member of two collections below the selected one, which has
\* no items itself: it has been exported twice, into two folders
C19_Witness ==
  /\ mirror.pc = "done"
  /\ ~mirror.cancelled
  /\ Len(mirror.runs) = 2
  /\ mirror.runs[1].collectionId # mirror.selected
  /\ mirror.runs[1].itemIds = {1}
  /\ mirror.runs[2].itemIds = {1}
  /\ mirror.runs[1].targetFolder # mirror.runs[2].targetFolder
  /\ mirror.totalExported = 2
  /\ Cardinality(mirror.disk) = 2

\* C20. The source store is never mutated: no step of a command (opening the
\* database, a search, a collection listing, the loading of an aggregate,
\* the cleanup) changes or removes the Zotero database file; the database
\* the queries are run on is the content of a temporary copy of that file,
\* at a path other than the file's, and no query changes it.
C20_SourceNeverMutated ==
  /\ [][/\ sqlitePath \in DOMAIN files'
        /\ files'[sqlitePath] = files[sqlitePath]
        /\ opened # undefined /\ opened' # undefined => opened' = opened]_vars
  /\ [](opened # undefined =>
          /\ opened.tempDbPath # sqlitePath
          /\ opened.tempDbPath \in DOMAIN files
          /\ opened.db = files[opened.tempDbPath]
          /\ opened.db = files[sqlitePath])

\* an aggregate has been loaded from the temporary copy, which is still there
C20_Witness ==
  /\ opened # undefined
  /\ call.op = "getItemExportData"
  /\ returned # undefined
  /\ "value" \in DOMAIN returned
  /\ Len(returned.value.notes) = 2
  /\ opened.tempDbPath = tempPath(1)
  /\ files[tempPath(1)] = files[sqlitePath]


(***************************************************************************)
(* Database discovery (src/zotero/queries.ts): pickPreferredSqliteCandidate *)
(* on its own, called with candidates that exist and any modification      *)
(* times.  A path is the string path.join builds, with "/" as separator.   *)
(***************************************************************************)
MaxCandidates == 3

str_homeDir == <<"/","h">>

str_Zotero == <<"Z","o","t","e","r","o">>

str_zotero_sqlite == <<"z","o","t","e","r","o",".","s","q","l","i","t","e">>

\* path.join of segments that are neither empty nor "." nor ".."
pathJoin(segments) ==
  flatten([i \in 1..Len(segments) |->
             IF i = 1 THEN segments[i] ELSE <<"/">> \o segments[i]])

\* path.normalize of an absolute path without "." and ".." segments: runs of
\* separators become one separator
pathNormalize(p) ==
  IF ~includes(p, <<"/", "/">>) THEN p
  ELSE LET kept == {i \in 1..Len(p) : ~(p[i] = "/" /\ i > 1 /\ p[i - 1] = "/")}
       IN [k \in 1..Cardinality(kept) |->
             p[CHOOSE i \in kept : Cardinality({j \in kept : j < i}) = k - 1]]

canonicalize(candidatePath) == toLowerCase(pathNormalize(candidatePath))

looksLikeProfilePath(normalizedPath) ==
  \/ includes(normalizedPath, <<"/","z","o","t","e","r","o","/","p","r","o","f","i","l","e","s","/">>)
  \/ includes(normalizedPath, <<"\\","z","o","t","e","r","o","\\","p","r","o","f","i","l","e","s","\\">>)

\* fs.stat of a candidate: its modification time in milliseconds, or an error
statOf(stats, candidate) == stats[candidate]

\* the score of one candidate (the body of the for loop)
scoreOf(candidate, env, stats) ==
  LET normalized == canonicalize(candidate)
      homeZotero == canonicalize(pathJoin(<<env.homeDir, str_Zotero, str_zotero_sqlite>>))
      stat == statOf(stats, candidate)
  IN (IF normalized = homeZotero THEN 1000 ELSE 0)
     + (IF env.userProfile # NULL
           /\ normalized = canonicalize(pathJoin(<<env.userProfile, str_Zotero, str_zotero_sqlite>>))
        THEN 900 ELSE 0)
     + (IF looksLikeProfilePath(normalized) THEN 600 ELSE 0)
     + (IF includes(normalized, <<"/","a","p","p","l","i","c","a","t","i","o","n"," ","s","u","p","p","o","r","t","/","z","o","t","e","r","o","/">>) THEN 300 ELSE 0)
     + (IF "mtimeMs" \in DOMAIN stat THEN stat.mtimeMs \div 1000 ELSE 0)

\* Array.prototype.sort with the comparator (a, b) => b.score - a.score: the
\* sort is stable, elements of equal score keep their order
sortByScoreDescending(scored) ==
  LET n == Len(scored)
      rank(k) == Cardinality({j \in 1..n : \/ scored[j].score > scored[k].score
                                           \/ scored[j].score = scored[k].score /\ j < k})
  IN [i \in 1..n |-> scored[CHOOSE k \in 1..n : rank(k) = i - 1]]

pickPreferredSqliteCandidate(candidates, env, stats) ==
  IF Len(candidates) = 0 THEN undefined
  ELSE IF Len(candidates) = 1 THEN [value |-> candidates[1]]
  ELSE LET scored == [i \in 1..Len(candidates) |->
                        [path |-> candidates[i], score |-> scoreOf(candidates[i], env, stats)]]
       IN [value |-> sortByScoreDescending(scored)[1].path]

\* the default database of the home directory
homeDatabase == pathJoin(<<str_homeDir, str_Zotero, str_zotero_sqlite>>)

\* a database of a profile below Application Support (the other candidate of
\* the test "prefers default Zotero sqlite in home directory")
profileDatabase ==
  pathJoin(<<str_homeDir, <<"L","i","b","r","a","r","y">>, <<"A","p","p","l","i","c","a","t","i","o","n"," ","S","u","p","p","o","r","t">>,
             str_Zotero, <<"P","r","o","f","i","l","e","s">>, <<"x">>, str_zotero_sqlite>>)

\* a database of a profile elsewhere
otherProfileDatabase ==
  pathJoin(<<<<"/","a">>, str_Zotero, <<"P","r","o","f","i","l","e","s">>, <<"x">>, str_zotero_sqlite>>)

\* a database at a path of the user's own
customDatabase == pathJoin(<<<<"/","d">>, str_zotero_sqlite>>)

candidatePaths == {homeDatabase, profileDatabase, otherProfileDatabase, customDatabase}

\* modification times in milliseconds: the same second, 100 seconds later,
\* 1000 seconds later
modificationTimes == {0, 999, 100000, 1000000}

statResults == {[error |-> "ENOENT"]} \cup {[mtimeMs |-> t] : t \in modificationTimes}

\* lists of up to n different candidates
candidateLists(n) ==
  {c \in UNION {[1..k -> candidatePaths] : k \in 0..n} :
     \A i, j \in 1..Len(c) : i # j => c[i] # c[j]}

\* the calls with the lists of candidates(n), each candidate existing with any
\* modification time or failing to be read
pickCalls(n) ==
  UNION {{[op |-> "pickPreferredSqliteCandidate", candidates |-> c,
           env |-> [platform |-> "darwin", homeDir |-> str_homeDir, userProfile |-> u],
           stats |-> st] :
            u \in {NULL, str_homeDir}, st \in [{c[i] : i \in 1..Len(c)} -> statResults]} :
         c \in candidateLists(n)}

InitDiscover ==
  /\ call \in pickCalls(MaxCandidates)
  /\ returned = undefined
  /\ fs = noTree
  /\ notExporting
  /\ notPicking
  /\ exportDatabase
  /\ notMirroring

PickPreferredSqliteCandidate ==
  /\ call.op = "pickPreferredSqliteCandidate"
  /\ returned = undefined
  /\ returned' = [called |-> TRUE,
                  result |-> pickPreferredSqliteCandidate(call.candidates, call.env, call.stats)]
  /\ UNCHANGED <<call, files, opened, opens, mirror, picker, exporting>>

NextDiscover == PickPreferredSqliteCandidate

SpecDiscover == InitDiscover /\ [][NextDiscover]_vars

\* C21. pickPreferredSqliteCandidate, called with two or more candidates that
\* exist and include <home>/Zotero/zotero.sqlite, returns that database,
\* whatever the modification times of the candidates are.
C21_PrefersHomeDatabase ==
  (/\ call.op = "pickPreferredSqliteCandidate"
   /\ returned # undefined
   /\ Len(call.candidates) >= 2
   /\ \E i \in 1..Len(call.candidates) : call.candidates[i] = homeDatabase
   /\ \A i \in 1..Len(call.candidates) : "mtimeMs" \in DOMAIN call.stats[call.candidates[i]])
    => returned.result = [value |-> homeDatabase]

\* the call of the repository's test, with the files written in the same
\* second, returns the home database; called with a profile database that was
\* modified 1000 seconds after the home database it returns the profile
\* database
C21_Witness ==
  /\ call.op = "pickPreferredSqliteCandidate"
  /\ call.candidates = <<profileDatabase, homeDatabase>>
  /\ call.env.userProfile = NULL
  /\ call.stats[homeDatabase] = [mtimeMs |-> 0]
  /\ call.stats[profileDatabase] = [mtimeMs |-> 1000000]
  /\ returned # undefined
  /\ returned.result = [value |-> profileDatabase]


\* the steps of the loop body after the aggregate is loaded and the paths
\* are computed
inFlightSteps ==
  {"resolveConflict", "removeExistingTarget", "mkdirItem", "selectPdfAttachments",
   "copyLoop", "makeUniqueFilePath", "uniqueLoop", "copyFile", "write"}

\* the order of the steps of one item
stepOrder ==
  /\ obs'.loads # obs.loads => pc = "loop" /\ obs'.loads = obs.loads + 1
  /\ pc' \in inFlightSteps /\ pc \notin inFlightSteps => obs'.loads = obs.loads + 1
  /\ pc' = "resolveConflict" => pc = "loop" /\ pathExists(fs, existingTarget')
  /\ pc = "loop" /\ pc' = "mkdirItem" => ~pathExists(fs, existingTarget')
  /\ obs'.conflicts # obs.conflicts => pc = "resolveConflict"
  /\ pc' = "removeExistingTarget" =>
       pc = "resolveConflict" /\ obs'.overwrites = obs.overwrites + 1
  /\ (\E q \in DOMAIN fs : q \notin DOMAIN fs') => pc = "removeExistingTarget"
  /\ pc' = "mkdirItem" => pc \in {"loop", "removeExistingTarget"}
  /\ pc' = "selectPdfAttachments" => pc = "mkdirItem" /\ Len(pdfAttachments') > 1
  /\ pc = "mkdirItem" /\ pc' \in {"copyLoop", "write"} => Len(pdfAttachments') <= 1
  /\ obs'.selections # obs.selections => pc = "selectPdfAttachments"
  /\ pc' = "copyLoop" => pc \in {"mkdirItem", "selectPdfAttachments", "copyLoop", "copyFile"}
  /\ pc' = "makeUniqueFilePath" => pc = "copyLoop"
  /\ pc' = "uniqueLoop" => pc \in {"makeUniqueFilePath", "uniqueLoop"}
  /\ pc' = "copyFile" => pc \in {"makeUniqueFilePath", "uniqueLoop"}
  /\ obs'.copies # obs.copies =>
       /\ pc = "copyFile"
       /\ obs'.copies = obs.copies + 1
       /\ Cardinality({q \in DOMAIN fs' : q \notin DOMAIN fs \/ fs'[q] # fs[q]}) = 1
  /\ pc' = "write" =>
       /\ pc \in {"mkdirItem", "selectPdfAttachments", "copyLoop", "copyFile"}
       /\ attIdx' = Len(selectedPdfs') + 1
  /\ obs'.writes # obs.writes => pc = "write" /\ obs'.writes = obs.writes + 1
  /\ result # undefined /\ result' # undefined /\ result'.exported # result.exported =>
       pc = "write" /\ obs'.writes = obs.writes + 1 /\ pc' = "loop"

\* the items that have been loaded are the items left behind and, when the
\* body is at one of its steps, the one in flight
oneItemInFlight ==
  /\ item # undefined <=> pc \in inFlightSteps
  /\ result # undefined =>
       obs.loads = processed(result) + (IF pc \in inFlightSteps THEN 1 ELSE 0)
                     + (IF result.cancelled THEN 1 ELSE 0)

\* the step raises
raises == obs'.raised = obs.raised + 1 /\ pc' = "loop"

\* the load of an item can fail, and while a fault is left, every step that
\* awaits a collaborator or a file operation can
failureReachable ==
  /\ pc = "loop" /\ idx <= batchLen => ENABLED (LoadItem(missingItemId) /\ raises)
  /\ faults < MaxFaults =>
       /\ pc = "resolveConflict" => ENABLED (ResolveConflictThrows /\ raises)
       /\ pc = "removeExistingTarget" => ENABLED (RemoveExistingTarget /\ raises)
       /\ pc = "mkdirItem" => ENABLED (MkdirItem /\ raises)
       /\ pc = "selectPdfAttachments" => ENABLED (SelectPdfAttachmentsThrows /\ raises)
       /\ pc = "copyFile" => ENABLED (CopyFile /\ raises)
       /\ pc = "write" =>
            ENABLED (writeFileRejects /\ raises /\ UNCHANGED <<layoutMode, batchLen, aside>>)

\* C22. Per-item step order and sequential processing: the steps of an item
\* occur in the order load and paths, conflict decision (only when the target
\* exists), removal of the old target (only on overwrite), attachment
\* selection (only for more than one PDF), copies one at a time, render and
\* write, count exported; failure is reachable from every step; no item is
\* loaded before the one before it is exported, skipped or failed, so at most
\* one item is in flight.
C22_StepOrder ==
  /\ [][stepOrder]_vars
  /\ [](oneItemInFlight /\ failureReachable)

\* an item whose target existed was overwritten, its attachments were
\* selected, two of them copied and its document written, and the next item
\* is in flight
C22_Witness ==
  /\ pc = "mkdirItem"
  /\ idx = 2
  /\ obs.loads = 2
  /\ obs.overwrites = 1
  /\ obs.selections = 1
  /\ obs.copies = 2
  /\ obs.writes = 1
  /\ result.exported = 1


\* what is at path q of the tree is a document written by exportItems
isDocument(tree, q) ==
  q \in DOMAIN tree /\ tree[q] # Dir /\ Len(tree[q].data) = 2 /\ tree[q].data[1] = "markdown"

\* the paths where the step has written a document
documentsWritten == {q \in DOMAIN fs' : isDocument(fs', q) /\ (q \notin DOMAIN fs \/ fs[q] # fs'[q])}

\* C23. The exported counter counts written documents: a step writes a
\* document exactly when it increases exported, and it writes it to the
\* markdown path of the item in flight; exported always equals the number of
\* writes completed in the run; a step that counts an item as failed or
\* skipped writes no document, and none was written for that item before.
C23_ExportedCountsWrites ==
  /\ [][result # undefined /\ result' # undefined =>
          /\ documentsWritten # {} <=> result'.exported = result.exported + 1
          /\ result'.exported # result.exported =>
               /\ documentsWritten = {outputPaths.markdownPath}
               /\ obs'.writes = obs.writes + 1
          /\ result'.exported = result.exported => obs'.writes = obs.writes
          /\ (result'.failed # result.failed \/ result'.skipped # result.skipped) =>
               /\ documentsWritten = {}
               /\ obs'.writes = obs.writes
               /\ result'.exported = result.exported]_vars
  /\ [](result # undefined => result.exported = obs.writes)
  /\ [](pc \in inFlightSteps => obs.writes = processed(result) - result.failed - result.skipped)

\* a run of three items has returned: two documents written and counted, one
\* item failed at the write
C23_Witness ==
  /\ pc = "done"
  /\ batchLen = 3
  /\ result.exported = 2
  /\ result.failed = 1
  /\ obs.writes = 2
  /\ obs.raised = 1
  /\ obs.copies = 0
  /\ Cardinality({q \in DOMAIN fs : isDocument(fs, q)}) = 2


isCopy(tree, q) ==
  q \in DOMAIN tree /\ tree[q] # Dir /\ Len(tree[q].data) = 2 /\ tree[q].data[1] = "copy"

\* the path of the copy recorded under a filename for the item in flight
copiedPath(name) == Append(dirname(outputPaths.markdownPath), name)

\* C25. When an item is counted as exported, every filename recorded in
\* copiedPdfNames still names the copy that was made of the attachment: the
\* write of the document does not overwrite a file copied for the same item.
C25_CopiesSurviveTheWrite ==
  [][result # undefined /\ result' # undefined /\ result'.exported # result.exported =>
       \A k \in 1..Len(copiedPdfNames) :
         /\ isCopy(fs, copiedPath(copiedPdfNames[k]))
         /\ isCopy(fs', copiedPath(copiedPdfNames[k]))
         /\ fs'[copiedPath(copiedPdfNames[k])] = fs[copiedPath(copiedPdfNames[k])]]_vars

\* an item with two copied attachments has been counted as exported, and
\* both copies are in its folder next to the document
C25_Witness ==
  /\ pc = "loop"
  /\ idx = 2
  /\ layoutMode = "item-folder"
  /\ result.exported = 1
  /\ obs.copies = 2
  /\ Cardinality({q \in DOMAIN fs : isCopy(fs, q)}) = 2
  /\ Cardinality({q \in DOMAIN fs : isDocument(fs, q)}) = 1


(***************************************************************************)
(* An export and a second export of the same item into the same            *)
(* destination: exportItems is called with one item, and when it has       *)
(* returned it is called again with the same item, the same layout and the *)
(* same answer of the selection collaborator.  The paths that exist when   *)
(* the first call returns, and its result, are kept in returned.           *)
(***************************************************************************)
reexportCalls ==
  {[op |-> "reexport", itemId |-> id, layoutMode |-> mode, keep |-> keep, tree |-> tree] :
     id \in storeItemIds, mode \in LayoutModes, keep \in SUBSET (1..maxPdfAttachments),
     tree \in {noTree, userTree}}

InitReexport ==
  /\ call \in reexportCalls
  /\ returned = undefined
  /\ fs = call.tree
  /\ notExporting
  /\ notPicking
  /\ exportDatabase
  /\ notMirroring

\* the first call has returned and the command is run again
ExportAgain ==
  /\ pc = "done"
  /\ returned = undefined
  /\ returned' = [value |-> [paths |-> DOMAIN fs, result |-> result]]
  /\ pc' = "idle"
  /\ batchLen' = 0
  /\ idx' = 0
  /\ result' = undefined
  /\ obs' = newObs
  /\ noItem
  /\ UNCHANGED <<fs, layoutMode, faults, call, files, opened, opens, mirror, picker>>

NextReexport ==
  \/ (pc = "idle" /\ call.op = "reexport" /\ Call(1, call.layoutMode))
  \/ MkdirRoot
  \/ LoadItem(call.itemId)
  \/ \E decision \in ConflictDecisions : ResolveConflict(decision)
  \/ ResolveConflictThrows
  \/ RemoveExistingTarget
  \/ MkdirItem
  \/ SelectPdfAttachments(call.keep)
  \/ SelectPdfAttachmentsThrows
  \/ NextAttachment
  \/ MakeUniqueFilePath
  \/ UniqueLoop
  \/ CopyFile
  \/ WriteMarkdown
  \/ Return
  \/ ExportAgain

SpecReexport == InitReexport /\ [][NextReexport]_vars

\* the second export of an item that the first one exported has overwritten
\* it and has returned
reexported ==
  /\ call.op = "reexport"
  /\ returned # undefined
  /\ returned.value.result.exported = 1
  /\ pc = "done"
  /\ obs.overwrites = 1
  /\ result.exported = 1

\* the regular files of the output root that have the flat prefix of the item
\* before the first export
foreignFiles == sweptFiles(call.tree, outputPathsOf[call.itemId][call.layoutMode])

\* C26 as stated. Idempotent re-export: exporting an unchanged item over its
\* own previous successful export with decision overwrite leaves exactly the
\* set of file paths the first export left, in all three layouts.
C26_IdempotentReexport == reexported => DOMAIN fs = returned.value.paths

\* C26. Idempotent re-export, provided that before the first export the
\* output root held no regular file whose name starts with the flat prefix of
\* the item: exporting the unchanged item again with the same attachments
\* selected and decision overwrite leaves exactly the set of file paths the
\* first export left, in all three layouts, so that no numbered copies of the
\* attachments accumulate.
C26_IdempotentReexportOfOwnFiles ==
  reexported /\ foreignFiles = {} => DOMAIN fs = returned.value.paths

\* item 1 has been exported twice in the flat layout with two attachments
\* selected, into an empty destination, the second time over the first export
C26_Witness ==
  /\ reexported
  /\ call.itemId = 1
  /\ call.layoutMode = "flat"
  /\ call.tree = noTree
  /\ Cardinality({q \in DOMAIN fs : isCopy(fs, q)}) = 2
  /\ Cardinality({q \in DOMAIN fs : isDocument(fs, q)}) = 1


\* the attachments of the aggregate of an item that are PDFs
pdfAttachmentsOf(db, itemId) ==
  LET attachments == getAttachmentsForItem(db, itemId)
  IN {attachments[k].itemId : k \in {j \in 1..Len(attachments) : attachments[j].isPdf}}

\* C27. For every top-level item in a summary result, pdfCount is the number
\* of attachments of the item's aggregate that have isPdf.
C27_PdfCountMatchesAggregate ==
  summariesReturned =>
    \A k \in 1..Len(returned.value) :
      returned.value[k].pdfCount
        = Cardinality(pdfAttachmentsOf(opened.db, returned.value[k].itemId))

\* item 1 has a PDF and an HTML attachment without a path: its summary counts
\* one PDF and its aggregate has two
C27_Witness ==
  /\ summariesReturned
  /\ opened.db \in attachmentStores
  /\ \E ia \in opened.db.itemAttachments :
       ia.itemID = 11 /\ ia.contentType = str_htmlType /\ ia.path = NULL
  /\ \E k \in 1..Len(returned.value) :
       /\ returned.value[k].itemId = 1
       /\ returned.value[k].pdfCount = 1
       /\ pdfAttachmentsOf(opened.db, 1) = {11, 12}


(***************************************************************************)
(* getDescendantCollectionIds on its own (src/export/naming.ts):            *)
(* a call with any collection as root and the collections of a library,    *)
(* any forest, in any order.                                               *)
(***************************************************************************)
\* the collections of a forest p over ids, as getCollectionsForLibrary
\* returns them, in the order q
collectionsOf(ids, p, q) ==
  [i \in 1..Cardinality(ids) |->
     [collectionId |-> q[i], key |-> <<"C">> \o decimal(q[i]), libraryId |-> 1,
      collectionName |-> <<"C">> \o decimal(q[i]), parentCollectionId |-> p[q[i]]]]

descendantCalls(ids) ==
  {[op |-> "getDescendantCollectionIds", rootCollectionId |-> root,
    collections |-> collectionsOf(ids, p, q)] :
     root \in ids, p \in forests,
     q \in {o \in [1..Cardinality(ids) -> ids] : \A i, j \in DOMAIN o : i # j => o[i] # o[j]}}

InitDescendants ==
  /\ call \in descendantCalls(collectionIds)
  /\ returned = undefined
  /\ fs = noTree
  /\ notExporting
  /\ notPicking
  /\ exportDatabase
  /\ notMirroring

GetDescendantCollectionIds ==
  /\ call.op = "getDescendantCollectionIds"
  /\ returned = undefined
  /\ returned' = [value |-> getDescendantCollectionIds(call.rootCollectionId, call.collections)]
  /\ UNCHANGED <<call, files, opened, opens, mirror, picker, exporting>>

NextDescendants == GetDescendantCollectionIds

SpecDescendants == InitDescendants /\ [][NextDescendants]_vars

\* the collection is root or the chain of its parents reaches root
RECURSIVE isBelow(_, _, _)
isBelow(collections, collectionId, root) ==
  \/ collectionId = root
  \/ \E k \in 1..Len(collections) :
       /\ collections[k].collectionId = collectionId
       /\ collections[k].parentCollectionId # nullId
       /\ isBelow(collections, collections[k].parentCollectionId, root)

\* C28. For a forest of collections, getDescendantCollectionIds(root) returns
\* the root first and then every collection below it, each once, a parent
\* before its children, and no collection that is not in the subtree.
C28_DescendantCollectionIds ==
  (call.op = "getDescendantCollectionIds" /\ returned # undefined) =>
    LET ids         == returned.value
        collections == call.collections
        root        == call.rootCollectionId
    IN /\ Len(ids) >= 1
       /\ ids[1] = root
       /\ {ids[i] : i \in 1..Len(ids)}
            = {collections[k].collectionId :
                 k \in {j \in 1..Len(collections) :
                          isBelow(collections, collections[j].collectionId, root)}}
       /\ \A i, j \in 1..Len(ids) : i # j => ids[i] # ids[j]
       /\ \A i, j \in 1..Len(ids) :
            (\E k \in 1..Len(collections) :
               /\ collections[k].collectionId = ids[j]
               /\ collections[k].parentCollectionId = ids[i]) => i < j

\* every collection is below the root and the last one returned is a
\* grandchild of the root: it comes after its parent, which comes after the
\* root
C28_Witness ==
  /\ call.op = "getDescendantCollectionIds"
  /\ returned # undefined
  /\ call.rootCollectionId = 1
  /\ Len(returned.value) = MaxCollections
  /\ \E k \in 1..Len(call.collections) :
       /\ call.collections[k].collectionId = returned.value[Len(returned.value)]
       /\ call.collections[k].parentCollectionId \in {returned.value[2], returned.value[3]}
       /\ call.collections[k].parentCollectionId # 1

\* ---------------------------------------------------------------------------
\* Item picker (src/commands/threeLineItemPicker.ts)
\* ---------------------------------------------------------------------------

\* the largest number of ids one export message posts
MaxPosted == 2

\* the largest number of events delivered to one picker
MaxEvents == 3

\* new Map(items.map((item) => [item.itemId, item])): a later item replaces an
\* earlier one with the same id
itemsById(items) ==
  [id \in {items[i].itemId : i \in 1..Len(items)} |->
     items[CHOOSE i \in 1..Len(items) :
             /\ items[i].itemId = id
             /\ \A j \in 1..Len(items) : items[j].itemId = id => j <= i]]

\* finish without the done flag
finishAgain(self, value) ==
  [self EXCEPT !.done = TRUE,
               !.disposables = << >>,
               !.panelDisposed = TRUE,
               !.resolutions = Append(@, value)]

\* finish(value): the first call disposes the listeners and the panel and
\* resolves the promise; a later call returns at once
finish(self, value) ==
  IF self.done
  THEN self
  ELSE [self EXCEPT !.done = TRUE,
                    !.disposables = << >>,
                    !.panelDisposed = TRUE,
                    !.resolutions = Append(@, value)]

\* the items of an export message without the filter on undefined
selectedWithUnknownIds(message, items) ==
  LET ids == IF message.isArray
             THEN SelectSeq(message.itemIds, LAMBDA posted : posted.isInteger)
             ELSE << >>
  IN [i \in 1..Len(ids) |-> [itemId |-> ids[i].value]]

\* ids and selected of the message listener: the posted values that are
\* integers, each replaced by the offered item with that id, the ones without
\* an offered item left out
selected(message, items) ==
  LET ids    == IF message.isArray
                THEN SelectSeq(message.itemIds, LAMBDA posted : posted.isInteger)
                ELSE << >>
      byId   == itemsById(items)
      mapped == [i \in 1..Len(ids) |->
                   IF ids[i].value \in DOMAIN byId
                   THEN [value |-> byId[ids[i].value]]
                   ELSE undefined]
      kept   == SelectSeq(mapped, LAMBDA got : got # undefined)
  IN [i \in 1..Len(kept) |-> kept[i].value]

\* the offered item ids
offeredIds == {1, 2}

\* the lists of items offered: summaries with distinct ids
offeredLists ==
  {<< >>} \cup {<<[itemId |-> a]>> : a \in offeredIds}
          \cup {<<[itemId |-> pair[1]], [itemId |-> pair[2]]>> :
                  pair \in {ab \in offeredIds \X offeredIds : ab[1] # ab[2]}}

\* the values a message posts as ids: offered ids, an id that was not
\* offered, and a value that is not an integer
postedValues ==
  {[isInteger |-> TRUE, value |-> n] : n \in offeredIds \cup {3}}
    \cup {[isInteger |-> FALSE, value |-> 1]}

\* the lists of at most n posted values
RECURSIVE postedLists(_)
postedLists(n) ==
  IF n = 0 THEN {<< >>}
  ELSE LET shorter == postedLists(n - 1)
       IN shorter \cup {Append(l, v) : l \in shorter, v \in postedValues}

\* the messages the webview posts: cancel, export with a list of at most n
\* ids or with something that is not an array, and a message of another type
pickerMessages(n) ==
  {[type |-> "cancel", isArray |-> FALSE, itemIds |-> << >>],
   [type |-> "ready", isArray |-> FALSE, itemIds |-> << >>],
   [type |-> "export", isArray |-> FALSE, itemIds |-> << >>]}
    \cup {[type |-> "export", isArray |-> TRUE, itemIds |-> l] : l \in postedLists(n)}

\* the disposal of the panel as an event
disposal == [type |-> "dispose", isArray |-> FALSE, itemIds |-> << >>]

\* no event has reached the picker
noEvent == [type |-> "none", isArray |-> FALSE, itemIds |-> << >>]

\* the event is a cancel message, an export message or the disposal
settles(event) == event.type \in {"cancel", "export", "dispose"}

\* the picker with one more event on record
noted(self, event) ==
  [self EXCEPT !.events = @ + 1,
               !.first  = IF @ = noEvent /\ settles(event) THEN event ELSE @]

InitPicker ==
  /\ call \in {[op |-> "pickItemsWithThreeLineView", items |-> l] : l \in offeredLists}
  /\ returned = undefined
  /\ fs = noTree
  /\ notExporting
  /\ notPicking
  /\ exportDatabase
  /\ notMirroring

\* pickItemsWithThreeLineView up to the promise it returns: the panel is
\* created, both listeners are registered, done is false
PickItemsWithThreeLineView ==
  /\ picker.pc = "idle"
  /\ call.op = "pickItemsWithThreeLineView"
  /\ picker' = [pc            |-> "open",
                items         |-> call.items,
                done          |-> FALSE,
                disposables   |-> <<"onDidDispose", "onDidReceiveMessage">>,
                panelDisposed |-> FALSE,
                resolutions   |-> << >>,
                events        |-> 0,
                first         |-> noEvent]
  /\ UNCHANGED <<call, returned, files, opened, opens, mirror, exporting>>

\* the listener of panel.onDidDispose is called
OnDidDispose ==
  /\ picker.pc = "open"
  /\ picker.events < MaxEvents
  /\ picker' = finish(noted(picker, disposal), undefined)
  /\ UNCHANGED <<call, returned, files, opened, opens, mirror, exporting>>

\* the listener of panel.webview.onDidReceiveMessage is called with a message
OnDidReceiveMessage(message) ==
  /\ picker.pc = "open"
  /\ picker.events < MaxEvents
  /\ picker' =
       IF message.type = "cancel"
       THEN finish(noted(picker, message), undefined)
       ELSE IF message.type # "export"
            THEN noted(picker, message)
            ELSE finish(noted(picker, message),
                        [value |-> selected(message, picker.items)])
  /\ UNCHANGED <<call, returned, files, opened, opens, mirror, exporting>>

NextPicker ==
  \/ PickItemsWithThreeLineView
  \/ OnDidDispose
  \/ \E message \in pickerMessages(MaxPosted) : OnDidReceiveMessage(message)

SpecPicker == InitPicker /\ [][NextPicker]_vars

\* the items the claim names for an export message: the offered items whose
\* ids were posted, in posted order
offeredAndPosted(message, items) ==
  LET wanted == IF message.isArray
                THEN SelectSeq(message.itemIds,
                               LAMBDA posted :
                                 /\ posted.isInteger
                                 /\ \E i \in 1..Len(items) : items[i].itemId = posted.value)
                ELSE << >>
  IN [i \in 1..Len(wanted) |->
        items[CHOOSE k \in 1..Len(items) : items[k].itemId = wanted[i].value]]

\* the value the first settling event resolves the promise to
resolvedBy(event, items) ==
  IF event.type = "export"
  THEN [value |-> offeredAndPosted(event, items)]
  ELSE undefined

\* C29. The promise of pickItemsWithThreeLineView is resolved exactly once,
\* by the first cancel message, export message or panel disposal, whatever
\* events follow: to undefined on cancel or disposal, and on export to the
\* offered items whose ids were posted, in posted order, ids that are not
\* integers or were not offered dropped. Later events change nothing.
C29_ResolvesExactlyOnce ==
  /\ [](picker.pc = "open" =>
          /\ picker.first = noEvent => (~picker.done /\ picker.resolutions = << >>)
          /\ picker.first # noEvent =>
               /\ picker.done
               /\ picker.resolutions = <<resolvedBy(picker.first, picker.items)>>)
  /\ [][(picker.pc = "open" /\ picker.done) =>
          /\ picker'.resolutions = picker.resolutions
          /\ picker'.done
          /\ picker'.disposables = picker.disposables
          /\ picker'.panelDisposed = picker.panelDisposed]_vars

\* an export message that posted an id that was not offered and then an
\* offered id came first and resolved the promise to the one offered item, and
\* the listeners were called again until MaxEvents events had been delivered
C29_Witness ==
  /\ picker.pc = "open"
  /\ picker.events = MaxEvents
  /\ picker.first.type = "export"
  /\ picker.first.itemIds = <<[isInteger |-> TRUE, value |-> 3],
                              [isInteger |-> TRUE, value |-> 2]>>
  /\ Len(picker.items) = 2
  /\ picker.resolutions = <<[value |-> <<[itemId |-> 2]>>]>>

\* ---------------------------------------------------------------------------
\* searchAndExportCommand, from openZoteroDatabase to the end of its finally
\* block (src/commands/searchAndExport.ts).  exportCollectionCommand opens the
\* database and cleans up in the same way (src/export/naming.ts 322-325,
\* 488-490).
\* ---------------------------------------------------------------------------

\* the largest number of times the user goes back from the review to the picker
MaxReselects == 1

\* the search texts of the command: one without a match, one that matches
\* item 1 of testDb, and the empty text
commandSearchTexts == {<<"q">>, str_distributed, << >>}

\* the command after the search text was entered
commandCalls ==
  {[op               |-> "searchAndExportCommand",
    pc               |-> "open",
    searchText       |-> searchText,
    maxSearchResults |-> limit,
    matches          |-> << >>,
    selectedItems    |-> << >>,
    reselects        |-> 0,
    layoutMode       |-> "none",
    disk             |-> disk,
    ending           |-> "none",
    closeThrew       |-> FALSE] :
     searchText \in commandSearchTexts, limit \in {1, DEFAULT_LIMIT},
     disk \in {{}, {itemTargetOf(testDb, outputRoot, "item-folder", 1)}}}

InitCommand ==
  /\ files = (sqlitePath :> testDb)
  /\ opened = undefined
  /\ opens = 0
  /\ call \in commandCalls
  /\ returned = undefined
  /\ fs = noTree
  /\ notExporting
  /\ notPicking
  /\ notMirroring

\* const opened = await openZoteroDatabase(sqlitePath): fs.copyFile rejects
\* and nothing is written, or the copy is made and then getSqlJs, fs.readFile
\* or new sqlJs.Database throws, or the handle is returned
OpenDatabase ==
  /\ call.op = "searchAndExportCommand"
  /\ call.pc = "open"
  /\ opens < MaxOpens
  /\ opens' = opens + 1
  /\ \/ /\ files' = files
        /\ opened' = undefined
        /\ call' = [call EXCEPT !.pc = "ended", !.ending = "copyThrew"]
     \/ /\ files' = copyDatabaseToTemp(files, opens + 1)
        /\ \/ /\ opened' = [db |-> files'[tempPath(opens + 1)],
                            tempDbPath |-> tempPath(opens + 1)]
              /\ call' = [call EXCEPT !.pc = "search"]
           \/ /\ opened' = undefined
              /\ call' = [call EXCEPT !.pc = "ended", !.ending = "openThrew"]
  /\ UNCHANGED <<returned, mirror, picker, exporting>>

\* matches = searchItems(...): the query throws, or nothing matched, or the
\* matches go to the picker
SearchMatches ==
  /\ call.op = "searchAndExportCommand"
  /\ call.pc = "search"
  /\ \/ call' = [call EXCEPT !.pc = "finally", !.ending = "queryThrew"]
     \/ \E rows \in searchItems(opened.db, call.searchText, call.maxSearchResults) :
          call' = IF Len(rows) = 0
                  THEN [call EXCEPT !.pc = "finally", !.ending = "noMatches"]
                  ELSE [call EXCEPT !.pc = "pick", !.matches = rows]
  /\ UNCHANGED <<returned, files, opened, opens, mirror, picker, exporting>>

\* selected = await pickItemsWithThreeLineView(matches): undefined, no item,
\* the first match or all matches
PickItems ==
  /\ call.op = "searchAndExportCommand"
  /\ call.pc = "pick"
  /\ \E picked \in {undefined, [value |-> << >>], [value |-> <<call.matches[1]>>],
                    [value |-> call.matches]} :
       call' = IF picked = undefined \/ Len(picked.value) = 0
               THEN [call EXCEPT !.pc = "finally", !.ending = "noSelection"]
               ELSE [call EXCEPT !.pc = "confirm", !.selectedItems = picked.value]
  /\ UNCHANGED <<returned, files, opened, opens, mirror, picker, exporting>>

\* decision = await confirmSelection(selectedItems, ...)
ConfirmSelection ==
  /\ call.op = "searchAndExportCommand"
  /\ call.pc = "confirm"
  /\ \E decision \in {"cancel", "export", "reselect"} :
       /\ decision = "reselect" => call.reselects < MaxReselects
       /\ call' = IF decision = "cancel"
                  THEN [call EXCEPT !.pc = "finally", !.ending = "cancelled"]
                  ELSE IF decision = "export"
                       THEN [call EXCEPT !.pc = "layout"]
                       ELSE [call EXCEPT !.pc = "pick", !.reselects = @ + 1]
  /\ UNCHANGED <<returned, files, opened, opens, mirror, picker, exporting>>

\* layoutMode = await promptLayoutMode()
PromptLayoutMode ==
  /\ call.op = "searchAndExportCommand"
  /\ call.pc = "layout"
  /\ \E mode \in LayoutModes \cup {"none"} :
       call' = IF mode = "none"
               THEN [call EXCEPT !.pc = "finally", !.ending = "noLayout"]
               ELSE [call EXCEPT !.pc = "export", !.layoutMode = mode]
  /\ UNCHANGED <<returned, files, opened, opens, mirror, picker, exporting>>

\* await runExport(opened.db, selectedItems, layoutMode, ...): it rejects, or
\* it returns after exportItems went through the items or was cancelled
RunExport ==
  /\ call.op = "searchAndExportCommand"
  /\ call.pc = "export"
  /\ \/ call' = [call EXCEPT !.pc = "finally", !.ending = "exportThrew"]
     \/ \E res \in runExport(opened.db, call.selectedItems, call.layoutMode, outputRoot,
                             call.disk, 0) :
          /\ ~res.thrown
          /\ call' = [call EXCEPT !.pc = "finally",
                                  !.disk = res.disk,
                                  !.ending = IF res.cancelled THEN "exportCancelled"
                                             ELSE "exported"]
  /\ UNCHANGED <<returned, files, opened, opens, mirror, picker, exporting>>

\* finally { await opened.cleanup(); }: db.close() returns or throws, and
\* fs.rm(tempDbPath, { force: true }) runs in the finally block of cleanup
FinallyCleanup ==
  /\ call.op = "searchAndExportCommand"
  /\ call.pc = "finally"
  /\ \E closeThrows \in BOOLEAN :
       call' = [call EXCEPT !.pc = "ended", !.closeThrew = closeThrows]
  /\ files' = rmForce(files, removedByCleanup(opened))
  /\ opened' = undefined
  /\ UNCHANGED <<returned, opens, mirror, picker, exporting>>

NextCommand ==
  \/ OpenDatabase
  \/ SearchMatches
  \/ PickItems
  \/ ConfirmSelection
  \/ PromptLayoutMode
  \/ RunExport
  \/ FinallyCleanup

\* every await of the command settles: the file system and the database
\* answer, and the user answers or dismisses each prompt
SpecCommand == InitCommand /\ [][NextCommand]_vars /\ WF_vars(NextCommand)

\* the temporary copies that exist
tempCopies == {n \in 1..MaxOpens : tempPath(n) \in DOMAIN files}

\* C30. Every temporary copy of the database that openZoteroDatabase makes is
\* deleted in the end, however the command ends: nothing matched, a prompt
\* was dismissed, the export completed or was cancelled, or opening, querying,
\* exporting or closing the database threw.
C30_TempCopyEventuallyDeleted ==
  \A n \in 1..MaxOpens :
    (tempPath(n) \in DOMAIN files) ~> (tempPath(n) \notin DOMAIN files)

\* the command has ended with an exception of openZoteroDatabase that was
\* raised after the copy was made, and the copy is still there
C30_Witness ==
  /\ call.op = "searchAndExportCommand"
  /\ call.pc = "ended"
  /\ call.ending = "openThrew"
  /\ opened = undefined
  /\ tempPath(1) \in DOMAIN files

====
